---- MODULE Spec2Model ----
(***************************************************************************)
(* ssh-tgzx: age-encrypted tar.gz archives for the SSH keys of a GitHub    *)
(* user.  The module models                                                *)
(*   - package constants: the sentinel errors and Constant.Wrap,           *)
(*   - package crypt: Encrypt / Decrypt over the age envelope,             *)
(*   - package archive: Create / Extract and the path-traversal guard,     *)
(*   - command create: Run, its producer goroutine, the pipe and errCh,    *)
(*   - package ghkeys: FetchRecipients,                                    *)
(*   - commands extract and list: Run.                                     *)
(* Specifications:                                                         *)
(*   Spec          create's Run (producer goroutine || consumer)           *)
(*   CryptSpec     crypt.Encrypt followed by crypt.Decrypt                 *)
(*   ExtractSpec   archive.Extract over an arbitrary entry stream          *)
(*   RoundTripSpec archive.Create -> Encrypt -> Decrypt -> archive.Extract *)
(*   TamperSpec    crypt.Decrypt of a damaged payload                      *)
(*   FetchSpec     ghkeys.FetchRecipients over responses and key listings  *)
(*   CreateSpec    archive.Create over a file system that can fail         *)
(*   CommandSpec   the Run of create, extract and list                     *)
(*   ListSpec      archive.List, twice over the same stream                *)
(*   ExtractOverSpec archive.Extract into a directory that has files       *)
(*   WrapSpec      Constant.Wrap over sentinels, causes and args           *)
(*   LiveSpec      create's Run under fair scheduling of its goroutines    *)
(***************************************************************************)
EXTENDS Integers, Sequences, FiniteSets, TLC

VARIABLES
    \* ---- create.Run and its goroutine
    nargs,        \* len(args)
    paths,        \* args[2:], each path readable ("ok") or not ("bad")
    ctxCancelled, \* ctx.Done() is closed
    runPc,        \* where Run is
    runResult,    \* the error Run returned (Nil: success)
    recipients,   \* what the key fetcher returned
    outFile,      \* the archive file on disk (NoFile: absent)
    fOpen,        \* Run holds the handle f
    encRet,       \* crypt.Encrypt's return value (Pending: not returned)
    rdBuf,        \* io.Copy's buffer: bytes read from pr, not yet written to ew
    rdErr,        \* what the last pr.Read returned as error
    ewBuf,        \* the age stream writer's unwritten plaintext
    nRead,        \* bytes the consumer has read from pr
    prodPc,       \* where the producer goroutine is
    prodIdx,      \* index in paths of the path archive.Create is at
    prodErr,      \* archive.Create's return value
    nWritten,     \* bytes handed to pw.Write so far
    pipeBuf,      \* the bytes of the pending pw.Write not yet read
    pipeErr,      \* the error the pipe was closed with (NotClosed: open)
    errCh,        \* the buffered channel errCh
    \* ---- crypt.Encrypt / crypt.Decrypt
    crPc, plaintext, crRecipients, identities, envelope, encErr, decrypted, decErr,
    \* ---- archive.Extract
    exPc, destDir, stream, streamKind, exIdx, fsDirs, fsFiles, extracted, exErr,
    \* ---- archive.Create (round trip)
    rtPc, rtPaths,
    \* ---- ghkeys.FetchRecipients
    fPc,          \* where FetchRecipients is
    fFail,        \* which step of the retrieval fails ("none": no step)
    fStatus,      \* resp.StatusCode
    fBody,        \* the lines of the response body
    fIdx,         \* the line the scanner is at
    fRcpts,       \* the local slice recipients
    fRet,         \* the recipients returned
    fErr,         \* the error returned (Pending: not returned)
    \* ---- archive.Create over a file system that can fail
    cPc,          \* where Create is
    cPaths,       \* the paths given to Create
    cFault,       \* the operation that fails and the object it fails on
    cIdx,         \* index in cPaths of the path addPath is at
    cObj,         \* index of the object filepath.Walk is at under that path
    cOut,         \* the entries written to the tar writer
    cSizes,       \* per entry: the size its header declares, the bytes written
    twClosed,     \* tw.Close() was called
    gwClosed,     \* gw.Close() was called
    cHandles,     \* the source files addPath holds open
    cErr,         \* the error Create returned (Pending: not returned)
    \* ---- extract.Run and list.Run
    rdCmd,        \* the command: "extract" or "list"
    rdNargs,      \* len(args)
    rdPc,         \* where Run is
    rdIdentity,   \* the identity file: "ok", "missing" or "malformed"
    rdArchive,    \* the archive file: "exists" or "missing"
    rdOpen,       \* Run holds the handle f
    rdCalls,      \* the calls Run has made, in order
    rdNames,      \* Result.Files / Result.Entries
    rdResult,     \* the error Run returned (Pending: not returned)
    \* ---- archive.List on two copies of a stream
    lPc,          \* how many of the two calls have returned
    lNames,       \* what the first call returned
    lNames2,      \* what the second call returned
    lErr,         \* the error of the first call (Pending: not returned)
    \* ---- Constant.Wrap
    wPc,          \* whether Wrap was called
    wE,           \* the receiver e
    wCause,       \* the argument err
    wArgs,        \* the arguments args
    wRes          \* the error returned

pipeVars == <<nargs, paths, ctxCancelled, runPc, runResult, recipients, outFile,
              fOpen, encRet, rdBuf, rdErr, ewBuf, nRead, prodPc, prodIdx, prodErr,
              nWritten, pipeBuf, pipeErr, errCh>>
cryptVars == <<crPc, plaintext, crRecipients, identities, envelope, encErr,
               decrypted, decErr>>
extractVars == <<exPc, destDir, stream, streamKind, exIdx, fsDirs, fsFiles,
                 extracted, exErr>>
rtVars == <<rtPc, rtPaths>>
fetchVars == <<fPc, fFail, fStatus, fBody, fIdx, fRcpts, fRet, fErr>>
\* the components that the specifications of Run, crypt and archive leave alone
createVars == <<cPc, cPaths, cFault, cIdx, cObj, cOut, cSizes, twClosed, gwClosed,
                cHandles, cErr>>
readVars == <<rdCmd, rdNargs, rdPc, rdIdentity, rdArchive, rdOpen, rdCalls, rdNames,
              rdResult>>
listVars == <<lPc, lNames, lNames2, lErr>>
wrapVars == <<wPc, wE, wCause, wArgs, wRes>>
pureVars == <<listVars, wrapVars>>
restVars == <<fetchVars, createVars, readVars, pureVars>>
vars == <<pipeVars, cryptVars, extractVars, rtVars, restVars>>

(***************************************************************************)
(* Bounds of the model.                                                    *)
(***************************************************************************)
MaxPaths == 2
MaxWrite == 2
MaxRecipients == 2
MaxPlain == 3
MaxEntries == 2
\* age's chunk size and io.Copy's buffer size, scaled down
ChunkSize == 2
CopyBuf == 2
NKeys == 3

Min(a, b) == IF a < b THEN a ELSE b

(***************************************************************************)
(* package constants: errors.  An error is its message (the pieces that    *)
(* fmt concatenates) and the chain of comparable errors errors.Is finds by *)
(* unwrapping it.                                                          *)
(***************************************************************************)
Nil == [text |-> <<>>, chain |-> <<>>]
Pending == [text |-> <<"pending">>, chain |-> <<>>]

ErrMissingArgument == "missing required argument"
ErrFetchKeys == "failed to fetch keys"
ErrParseKey == "failed to parse key"
ErrNoValidKeys == "no valid keys found"
ErrCreateArchive == "failed to create archive"
ErrEncrypt == "failed to encrypt"
ErrDecrypt == "failed to decrypt"
ErrExtract == "failed to extract"
ErrOpenFile == "failed to open file"
ErrParseIdentity == "failed to parse identity"

\* an error of the Go library or of the operating system
Cause(c) == [text |-> <<c>>, chain |-> <<c>>]
EOF == Cause("EOF")

\* Constant.Wrap(err, args...): with a cause, %w wraps the cause and e is
\* only part of the message; without one, %w wraps e itself.
Wrap(e, err, args) ==
    LET msg == <<e>> \o args
    IN  IF err # Nil
          THEN [text |-> msg \o err.text, chain |-> err.chain]
          ELSE [text |-> msg \o <<e>>, chain |-> <<e>>]

\* errors.Is(err, target)
ErrorsIs(err, target) == \E i \in DOMAIN err.chain : err.chain[i] = target

(***************************************************************************)
(* The age envelope: a header with one stanza per recipient, then the      *)
(* payload in chunks, the last one flagged.                                *)
(***************************************************************************)
KeyType(k) == IF k % 2 = 1 THEN "ssh-ed25519" ELSE "ssh-rsa"
Keys == 1..NKeys
\* the stanza age writes for recipient k: the key type and the key's tag
Stanza(k) == [type |-> KeyType(k), tag |-> k]
\* agessh identity k unwraps a stanza of its type that carries its tag
Unwraps(k, st) == st.type = KeyType(k) /\ st.tag = k

NoFile == [hdr |-> "absent", stanzas |-> <<>>, chunks |-> <<>>]
EmptyFile == [hdr |-> "none", stanzas |-> <<>>, chunks |-> <<>>]

Chunk(data, last) == [data |-> data, last |-> last, complete |-> TRUE]
\* what a failed write leaves of a chunk: a strict prefix of its bytes
TornChunk(data, last) == [data |-> data, last |-> last, complete |-> FALSE]

\* stream.Writer.Write(p) on a writer holding buf: fill the buffer, and flush
\* a full buffer (not as the last chunk) only when more plaintext follows.
RECURSIVE StreamWrite(_, _)
StreamWrite(buf, p) ==
    IF p = <<>> THEN [buf |-> buf, out |-> <<>>]
    ELSE LET n == Min(ChunkSize - Len(buf), Len(p))
             b == buf \o SubSeq(p, 1, n)
             rest == SubSeq(p, n + 1, Len(p))
         IN  IF Len(b) = ChunkSize /\ rest # <<>>
               THEN LET r == StreamWrite(<<>>, rest)
                    IN  [buf |-> r.buf, out |-> <<Chunk(b, FALSE)>> \o r.out]
               ELSE [buf |-> b, out |-> <<>>]

\* stream.Writer.Close(): the unwritten plaintext goes out as the last chunk
StreamClose(buf) == Chunk(buf, TRUE)

\* stream.Reader: every chunk must authenticate, a chunk that is not the last
\* is full, the stream ends with exactly one last chunk, which is empty only
\* when it is the only chunk.  The plaintext of the chunks before the failing
\* one has been handed out already.
RECURSIVE StreamRead(_, _)
StreamRead(chunks, i) ==
    IF i > Len(chunks) THEN [out |-> <<>>, err |-> Cause("unexpected EOF")]
    ELSE LET c == chunks[i]
         IN  IF ~c.complete \/ (~c.last /\ Len(c.data) # ChunkSize)
               THEN [out |-> <<>>, err |-> Cause("failed to authenticate chunk")]
             ELSE IF c.last
               THEN IF i < Len(chunks)
                      THEN [out |-> <<>>, err |-> Cause("trailing data")]
                    ELSE IF c.data = <<>> /\ i > 1
                      THEN [out |-> <<>>, err |-> Cause("last chunk is empty")]
                    ELSE [out |-> c.data, err |-> Nil]
             ELSE LET r == StreamRead(chunks, i + 1)
                  IN  [out |-> c.data \o r.out, err |-> r.err]

\* age.Decrypt(r, identities...): parse the header, then try every identity
\* on every stanza.
AgeDecryptHeader(file, ids) ==
    IF file.hdr # "complete" THEN Cause("failed to read header")
    ELSE IF \E i \in DOMAIN ids : \E j \in DOMAIN file.stanzas :
               Unwraps(ids[i], file.stanzas[j])
      THEN Nil
    ELSE Cause("no identity matched any of the recipients")

\* crypt.Decrypt(w, r, identities): what w holds and the error returned
Decrypt(file, ids) ==
    LET herr == AgeDecryptHeader(file, ids)
    IN  IF herr # Nil THEN [out |-> <<>>, err |-> Wrap(ErrDecrypt, herr, <<>>)]
        ELSE LET r == StreamRead(file.chunks, 1)
             IN  IF r.err # Nil
                   THEN [out |-> r.out, err |-> Wrap(ErrDecrypt, r.err, <<>>)]
                   ELSE [out |-> r.out, err |-> Nil]

\* io.Copy(ew, r) over a reader that holds p, then ew.Close(): the reader hands
\* out at most CopyBuf bytes per Read
RECURSIVE CopyAll(_, _)
CopyAll(buf, p) ==
    IF p = <<>> THEN <<StreamClose(buf)>>
    ELSE LET n == Min(CopyBuf, Len(p))
             w == StreamWrite(buf, SubSeq(p, 1, n))
         IN  w.out \o CopyAll(w.buf, SubSeq(p, n + 1, Len(p)))

\* a variant that wraps the file key for the first recipient only
Stanzas_FirstOnly(rs) == [i \in 1..Min(1, Len(rs)) |-> Stanza(rs[i])]

\* the stanzas age.Encrypt writes: one per recipient, in order
Stanzas(rs) == [i \in DOMAIN rs |-> Stanza(rs[i])]

\* crypt.Encrypt(w, r, recipients) into a writer that never fails
Encrypt(p, rs) ==
    IF rs = <<>>
      THEN [file |-> EmptyFile,
            err |-> Wrap(ErrEncrypt, Cause("no recipients specified"), <<>>)]
      ELSE [file |-> [hdr |-> "complete", stanzas |-> Stanzas(rs),
                      chunks |-> CopyAll(<<>>, p)],
            err |-> Nil]

(***************************************************************************)
(* The variables of a component that a specification does not run.         *)
(***************************************************************************)
PipeIdle ==
    /\ nargs = 0 /\ paths = <<>> /\ ctxCancelled = FALSE /\ runPc = "idle"
    /\ runResult = Nil /\ recipients = <<>> /\ outFile = NoFile /\ fOpen = FALSE
    /\ encRet = Pending /\ rdBuf = <<>> /\ rdErr = Nil /\ ewBuf = <<>> /\ nRead = 0
    /\ prodPc = "idle" /\ prodIdx = 1 /\ prodErr = Pending /\ nWritten = 0
    /\ pipeBuf = <<>> /\ pipeErr = Pending /\ errCh = <<>>

CryptIdle ==
    /\ crPc = "idle" /\ plaintext = <<>> /\ crRecipients = <<>> /\ identities = <<>>
    /\ envelope = NoFile /\ encErr = Pending /\ decrypted = <<>> /\ decErr = Pending

ExtractIdle ==
    /\ exPc = "idle" /\ destDir = <<>> /\ stream = <<>> /\ streamKind = "ok"
    /\ exIdx = 1
    /\ fsDirs = {} /\ fsFiles = <<>> /\ extracted = <<>> /\ exErr = Pending

RtIdle == rtPc = "idle" /\ rtPaths = <<>>

FetchIdle ==
    /\ fPc = "idle" /\ fFail = "none" /\ fStatus = 0 /\ fBody = <<>> /\ fIdx = 1
    /\ fRcpts = <<>> /\ fRet = <<>> /\ fErr = Pending

NoFault == [path |-> 0, obj |-> 0, kind |-> "none"]

CreateIdle ==
    /\ cPc = "idle" /\ cPaths = <<>> /\ cFault = NoFault /\ cIdx = 1 /\ cObj = 1
    /\ cOut = <<>> /\ cSizes = <<>> /\ twClosed = FALSE /\ gwClosed = FALSE
    /\ cHandles = {} /\ cErr = Pending

ReadIdle ==
    /\ rdCmd = "none" /\ rdNargs = 0 /\ rdPc = "idle" /\ rdIdentity = "ok"
    /\ rdArchive = "exists" /\ rdOpen = FALSE /\ rdCalls = <<>> /\ rdNames = <<>>
    /\ rdResult = Pending

ListIdle == lPc = "idle" /\ lNames = <<>> /\ lNames2 = <<>> /\ lErr = Pending

WrapIdle ==
    /\ wPc = "idle" /\ wE = "" /\ wCause = Nil /\ wArgs = <<>> /\ wRes = Pending

PureIdle == ListIdle /\ WrapIdle

RestIdle == FetchIdle /\ CreateIdle /\ ReadIdle /\ PureIdle

(***************************************************************************)
(* create.Run: the key fetch, the output file, the pipe, the producer      *)
(* goroutine (archive.Create) and the consumer (crypt.Encrypt).            *)
(***************************************************************************)
\* the pipe is open
NotClosed == Pending

SeqsUpTo(S, n) == UNION {[1..k -> S] : k \in 0..n}

\* the envelope a previous run left at the output path
OldFile == Encrypt(<<0>>, <<1>>).file

InitRun ==
    /\ nargs \in 0..(2 + MaxPaths)
    /\ paths \in {ps \in SeqsUpTo({"ok", "bad"}, MaxPaths) :
                    Len(ps) = IF nargs > 2 THEN nargs - 2 ELSE 0}
    /\ ctxCancelled = FALSE
    /\ runPc = "start"
    /\ runResult = Nil
    /\ recipients = <<>>
    /\ outFile \in {NoFile, OldFile}
    /\ fOpen = FALSE
    /\ encRet = Pending
    /\ rdBuf = <<>> /\ rdErr = Nil /\ ewBuf = <<>> /\ nRead = 0
    /\ prodPc = "notstarted" /\ prodIdx = 1 /\ prodErr = Pending /\ nWritten = 0
    /\ pipeBuf = <<>> /\ pipeErr = NotClosed /\ errCh = <<>>

Init == InitRun /\ CryptIdle /\ ExtractIdle /\ RtIdle /\ RestIdle

others == <<cryptVars, extractVars, rtVars, restVars>>

\* a return of Run: the deferred f.Close() runs
Return(err) ==
    /\ runPc' = "returned"
    /\ runResult' = err
    /\ fOpen' = FALSE

\* signal.NotifyContext: an interrupt cancels ctx while Run is running
Cancel ==
    /\ runPc \notin {"returned", "idle"}
    /\ ~ctxCancelled
    /\ ctxCancelled' = TRUE
    /\ UNCHANGED <<nargs, paths, runPc, runResult, recipients, outFile, fOpen,
                   encRet, rdBuf, rdErr, ewBuf, nRead, prodPc, prodIdx, prodErr,
                   nWritten, pipeBuf, pipeErr, errCh, others>>

\* if len(args) < 3 { return ErrMissingArgument.Wrap(nil, usage) }
RunCheckArgs ==
    /\ runPc = "start"
    /\ IF nargs < 3
         THEN Return(Wrap(ErrMissingArgument, Nil, <<"usage">>))
         ELSE runPc' = "fetch" /\ UNCHANGED <<runResult, fOpen>>
    /\ UNCHANGED <<nargs, paths, ctxCancelled, recipients, outFile, encRet, rdBuf,
                   rdErr, ewBuf, nRead, prodPc, prodIdx, prodErr, nWritten, pipeBuf,
                   pipeErr, errCh, others>>

\* what a key fetcher can return as its error
FetchErrors == {Wrap(ErrFetchKeys, Cause("transport"), <<>>),
                Wrap(ErrFetchKeys, Nil, <<"HTTP", "404">>),
                Wrap(ErrNoValidKeys, Nil, <<"username">>)}

\* a variant of Run that creates the output file before it looks at the
\* fetcher's error
RunFetch_CreatesFirst ==
    /\ runPc = "fetch"
    /\ \/ /\ ctxCancelled
          /\ Return(Wrap(ErrFetchKeys, Cause("context canceled"), <<>>))
          /\ outFile' = EmptyFile
          /\ UNCHANGED recipients
       \/ /\ ~ctxCancelled
          /\ \E e \in FetchErrors : Return(e)
          /\ outFile' = EmptyFile
          /\ UNCHANGED recipients
       \/ /\ ~ctxCancelled
          /\ \E rs \in SeqsUpTo(Keys, MaxRecipients) : recipients' = rs
          /\ runPc' = "create_file"
          /\ UNCHANGED <<runResult, fOpen, outFile>>
    /\ UNCHANGED <<nargs, paths, ctxCancelled, encRet, rdBuf, rdErr, ewBuf,
                   nRead, prodPc, prodIdx, prodErr, nWritten, pipeBuf, pipeErr,
                   errCh, others>>

\* recipients, err := fetcher(ctx, http.DefaultClient, username): the request
\* carries ctx, so a cancelled ctx fails it; config.KeyFetcher may be any
\* function, also one that returns no recipient and no error
RunFetch ==
    /\ runPc = "fetch"
    /\ \/ /\ ctxCancelled
          /\ Return(Wrap(ErrFetchKeys, Cause("context canceled"), <<>>))
          /\ UNCHANGED recipients
       \/ /\ ~ctxCancelled
          /\ \E e \in FetchErrors : Return(e)
          /\ UNCHANGED recipients
       \/ /\ ~ctxCancelled
          /\ \E rs \in SeqsUpTo(Keys, MaxRecipients) : recipients' = rs
          /\ runPc' = "create_file"
          /\ UNCHANGED <<runResult, fOpen>>
    /\ UNCHANGED <<nargs, paths, ctxCancelled, outFile, encRet, rdBuf, rdErr, ewBuf,
                   nRead, prodPc, prodIdx, prodErr, nWritten, pipeBuf, pipeErr,
                   errCh, others>>

\* f, err := os.Create(archiveFile); defer f.Close()
RunCreateFile ==
    /\ runPc = "create_file"
    /\ \/ /\ Return(Wrap(ErrOpenFile, Cause("open failed"), <<"archiveFile">>))
          /\ UNCHANGED outFile
       \/ /\ outFile' = EmptyFile
          /\ fOpen' = TRUE
          /\ runPc' = "spawn"
          /\ UNCHANGED runResult
    /\ UNCHANGED <<nargs, paths, ctxCancelled, recipients, encRet, rdBuf, rdErr,
                   ewBuf, nRead, prodPc, prodIdx, prodErr, nWritten, pipeBuf,
                   pipeErr, errCh, others>>

\* pr, pw := io.Pipe(); errCh := make(chan error, 1); go func() {...}()
RunSpawn ==
    /\ runPc = "spawn"
    /\ runPc' = "enc_init"
    /\ prodPc' = "walk"
    /\ UNCHANGED <<nargs, paths, ctxCancelled, runResult, recipients, outFile, fOpen,
                   encRet, rdBuf, rdErr, ewBuf, nRead, prodIdx, prodErr, nWritten,
                   pipeBuf, pipeErr, errCh, others>>

\* ---- the producer goroutine

\* archive.Create's loop: addPath(tw, p) for the next path.  An unreadable path
\* ends Create with ErrCreateArchive.Wrap(err, p); a readable one sends what
\* the gzip writer flushes, if anything, into pw.Write.  After the last path,
\* tw.Close() and gw.Close() write the trailers.
ProdAddPath ==
    /\ prodPc = "walk"
    /\ prodIdx <= Len(paths)
    /\ IF paths[prodIdx] = "bad"
         THEN /\ prodErr' = Wrap(ErrCreateArchive, Cause("lstat failed"), <<"path">>)
              /\ prodPc' = "close_pipe"
              /\ UNCHANGED <<prodIdx, nWritten, pipeBuf>>
         ELSE /\ prodIdx' = prodIdx + 1
              /\ \E k \in 0..MaxWrite :
                    /\ pipeBuf' = [i \in 1..k |-> nWritten + i]
                    /\ nWritten' = nWritten + k
                    /\ prodPc' = IF k = 0 THEN "walk" ELSE "write"
              /\ UNCHANGED prodErr
    /\ UNCHANGED <<nargs, paths, ctxCancelled, runPc, runResult, recipients, outFile,
                   fOpen, encRet, rdBuf, rdErr, ewBuf, nRead, pipeErr, errCh, others>>

\* pw.Write returns once the reader has taken every byte of it
ProdWriteDone ==
    /\ prodPc \in {"write", "write_trailer"}
    /\ pipeBuf = <<>>
    /\ IF prodPc = "write"
         THEN prodPc' = "walk" /\ UNCHANGED prodErr
         ELSE prodPc' = "close_pipe" /\ prodErr' = Nil
    /\ UNCHANGED <<nargs, paths, ctxCancelled, runPc, runResult, recipients, outFile,
                   fOpen, encRet, rdBuf, rdErr, ewBuf, nRead, prodIdx, nWritten,
                   pipeBuf, pipeErr, errCh, others>>

\* tw.Close(); gw.Close(): the tar and gzip trailers go into pw.Write
ProdCloseWriters ==
    /\ prodPc = "walk"
    /\ prodIdx > Len(paths)
    /\ pipeBuf' = <<nWritten + 1>>
    /\ nWritten' = nWritten + 1
    /\ prodPc' = "write_trailer"
    /\ UNCHANGED <<nargs, paths, ctxCancelled, runPc, runResult, recipients, outFile,
                   fOpen, encRet, rdBuf, rdErr, ewBuf, nRead, prodIdx, prodErr,
                   pipeErr, errCh, others>>

\* a variant of the goroutine that calls pw.Close(), dropping Create's error
CloseWithError_Drops(err) == EOF

\* pw.CloseWithError(err): a nil err closes the pipe with io.EOF
CloseWithError(err) == IF err = Nil THEN EOF ELSE err

\* a variant of the goroutine that sends Create's result without closing pw
ProdClosePipe_NoClose ==
    /\ prodPc = "close_pipe"
    /\ prodPc' = "send"
    /\ UNCHANGED <<nargs, paths, ctxCancelled, runPc, runResult, recipients, outFile,
                   fOpen, encRet, rdBuf, rdErr, ewBuf, nRead, prodIdx, prodErr,
                   nWritten, pipeBuf, pipeErr, errCh, others>>

ProdClosePipe ==
    /\ prodPc = "close_pipe"
    /\ pipeErr' = CloseWithError(prodErr)
    /\ prodPc' = "send"
    /\ UNCHANGED <<nargs, paths, ctxCancelled, runPc, runResult, recipients, outFile,
                   fOpen, encRet, rdBuf, rdErr, ewBuf, nRead, prodIdx, prodErr,
                   nWritten, pipeBuf, errCh, others>>

\* errCh <- err: the channel has room for the one value ever sent
ProdSend ==
    /\ prodPc = "send"
    /\ Len(errCh) < 1
    /\ errCh' = Append(errCh, prodErr)
    /\ prodPc' = "done"
    /\ UNCHANGED <<nargs, paths, ctxCancelled, runPc, runResult, recipients, outFile,
                   fOpen, encRet, rdBuf, rdErr, ewBuf, nRead, prodIdx, prodErr,
                   nWritten, pipeBuf, pipeErr, others>>

\* ---- the consumer: crypt.Encrypt(f, pr, recipients), run by Run itself

\* the error of a failed write to f
WriteFailed == Cause("write failed")

\* ew, err := age.Encrypt(w, recipients...): no recipient is an error; else
\* the header with one stanza per recipient is written to f
EncInit ==
    /\ runPc = "enc_init"
    /\ \/ /\ recipients = <<>>
          /\ encRet' = Encrypt(<<>>, recipients).err
          /\ runPc' = "enc_ret"
          /\ UNCHANGED outFile
       \/ /\ recipients # <<>>
          /\ outFile' = [outFile EXCEPT !.hdr = "complete",
                                        !.stanzas = Stanzas(recipients)]
          /\ runPc' = "copy_read"
          /\ UNCHANGED encRet
       \/ /\ recipients # <<>>
          /\ \E h \in {"none", "partial"} : outFile' = [outFile EXCEPT !.hdr = h]
          /\ encRet' = Wrap(ErrEncrypt, WriteFailed, <<>>)
          /\ runPc' = "enc_ret"
    /\ UNCHANGED <<nargs, paths, ctxCancelled, runResult, recipients, fOpen, rdBuf,
                   rdErr, ewBuf, nRead, prodPc, prodIdx, prodErr, nWritten, pipeBuf,
                   pipeErr, errCh, others>>

\* the chunks of f after ew.Close(): the last chunk is appended
EwCloseChunks(chunks, buf) == chunks \o <<StreamClose(buf)>>

\* a variant of Encrypt that closes ew on the error path too (defer ew.Close())
AfterCopyError_Closes(chunks, buf) == EwCloseChunks(chunks, buf)

\* if _, err := io.Copy(ew, r); err != nil { return ErrEncrypt.Wrap(err) }:
\* Encrypt returns without closing ew, so f gets no last chunk
AfterCopyError(chunks, buf) == chunks

\* io.Copy(ew, r): one pr.Read.  A closed pipe answers with the error it was
\* closed with; else the read blocks until a write is pending and takes up to
\* CopyBuf bytes of it.  io.EOF ends the copy, any other error fails it.
CopyRead ==
    /\ runPc = "copy_read"
    /\ IF pipeErr # NotClosed
         THEN /\ rdErr' = pipeErr
              /\ IF pipeErr = EOF
                   THEN runPc' = "ew_close" /\ UNCHANGED encRet
                   ELSE /\ encRet' = Wrap(ErrEncrypt, pipeErr, <<>>)
                        /\ runPc' = "enc_ret"
              /\ outFile' = IF pipeErr = EOF THEN outFile
                            ELSE [outFile EXCEPT !.chunks = AfterCopyError(@, ewBuf)]
              /\ UNCHANGED <<rdBuf, pipeBuf, nRead>>
         ELSE /\ pipeBuf # <<>>
              /\ LET n == Min(CopyBuf, Len(pipeBuf))
                 IN  /\ rdBuf' = SubSeq(pipeBuf, 1, n)
                     /\ pipeBuf' = SubSeq(pipeBuf, n + 1, Len(pipeBuf))
                     /\ nRead' = nRead + n
              /\ runPc' = "copy_write"
              /\ UNCHANGED <<rdErr, encRet, outFile>>
    /\ UNCHANGED <<nargs, paths, ctxCancelled, runResult, recipients, fOpen,
                   ewBuf, prodPc, prodIdx, prodErr, nWritten, pipeErr, errCh, others>>

\* io.Copy(ew, r): ew.Write(buf[:n]).  Every chunk the stream writer flushes is
\* written to f; a failed write leaves nothing or a torn chunk and fails the copy.
CopyWrite ==
    /\ runPc = "copy_write"
    /\ LET w == StreamWrite(ewBuf, rdBuf)
       IN  \/ /\ outFile' = [outFile EXCEPT !.chunks = @ \o w.out]
              /\ ewBuf' = w.buf
              /\ rdBuf' = <<>>
              /\ runPc' = "copy_read"
              /\ UNCHANGED encRet
           \/ /\ \E k \in 1..Len(w.out) : \E torn \in BOOLEAN :
                    outFile' = [outFile EXCEPT !.chunks =
                        @ \o SubSeq(w.out, 1, k - 1)
                          \o (IF torn THEN <<TornChunk(w.out[k].data, FALSE)>>
                                      ELSE <<>>)]
              /\ encRet' = Wrap(ErrEncrypt, WriteFailed, <<>>)
              /\ runPc' = "enc_ret"
              /\ UNCHANGED <<ewBuf, rdBuf>>
    /\ UNCHANGED <<nargs, paths, ctxCancelled, runResult, recipients, fOpen, rdErr,
                   nRead, prodPc, prodIdx, prodErr, nWritten, pipeBuf, pipeErr,
                   errCh, others>>

\* ew.Close(): the last chunk is written to f, or the write fails
EwClose ==
    /\ runPc = "ew_close"
    /\ \/ /\ outFile' = [outFile EXCEPT !.chunks = EwCloseChunks(@, ewBuf)]
          /\ encRet' = Nil
       \/ /\ \E torn \in BOOLEAN :
                outFile' = [outFile EXCEPT !.chunks =
                    @ \o (IF torn THEN <<TornChunk(ewBuf, TRUE)>> ELSE <<>>)]
          /\ encRet' = Wrap(ErrEncrypt, WriteFailed, <<>>)
    /\ runPc' = "enc_ret"
    /\ UNCHANGED <<nargs, paths, ctxCancelled, runResult, recipients, fOpen, rdBuf,
                   rdErr, ewBuf, nRead, prodPc, prodIdx, prodErr, nWritten, pipeBuf,
                   pipeErr, errCh, others>>

\* a variant of Run that goes on to errCh whatever Encrypt returned
RunAfterEncrypt_IgnoresErr ==
    /\ runPc = "enc_ret"
    /\ runPc' = "recv"
    /\ UNCHANGED <<nargs, paths, ctxCancelled, runResult, recipients, outFile, fOpen,
                   encRet, rdBuf, rdErr, ewBuf, nRead, prodPc, prodIdx, prodErr,
                   nWritten, pipeBuf, pipeErr, errCh, others>>

\* if err := crypt.Encrypt(f, pr, recipients); err != nil { return Result{}, err }
RunAfterEncrypt ==
    /\ runPc = "enc_ret"
    /\ IF encRet # Nil
         THEN Return(encRet)
         ELSE runPc' = "recv" /\ UNCHANGED <<runResult, fOpen>>
    /\ UNCHANGED <<nargs, paths, ctxCancelled, recipients, outFile, encRet, rdBuf,
                   rdErr, ewBuf, nRead, prodPc, prodIdx, prodErr, nWritten, pipeBuf,
                   pipeErr, errCh, others>>

\* if err := <-errCh; err != nil { return Result{}, err }
RunRecv ==
    /\ runPc = "recv"
    /\ errCh # <<>>
    /\ errCh' = Tail(errCh)
    /\ IF Head(errCh) # Nil
         THEN Return(Head(errCh))
         ELSE runPc' = "stat" /\ UNCHANGED <<runResult, fOpen>>
    /\ UNCHANGED <<nargs, paths, ctxCancelled, recipients, outFile, encRet, rdBuf,
                   rdErr, ewBuf, nRead, prodPc, prodIdx, prodErr, nWritten, pipeBuf,
                   pipeErr, others>>

\* the error of a failed f.Stat()
StatFailed == Cause("stat failed")

\* info, err := f.Stat(); if err != nil { return Result{}, err }; return Result{...}, nil
RunStat ==
    /\ runPc = "stat"
    /\ \/ Return(StatFailed)
       \/ Return(Nil)
    /\ UNCHANGED <<nargs, paths, ctxCancelled, recipients, outFile, encRet, rdBuf,
                   rdErr, ewBuf, nRead, prodPc, prodIdx, prodErr, nWritten, pipeBuf,
                   pipeErr, errCh, others>>

Next ==
    \/ Cancel
    \/ RunCheckArgs
    \/ RunFetch
    \/ RunCreateFile
    \/ RunSpawn
    \/ ProdAddPath
    \/ ProdWriteDone
    \/ ProdCloseWriters
    \/ ProdClosePipe
    \/ ProdSend
    \/ EncInit
    \/ CopyRead
    \/ CopyWrite
    \/ EwClose
    \/ RunAfterEncrypt
    \/ RunRecv
    \/ RunStat

Spec == Init /\ [][Next]_vars

(***************************************************************************)
(* Properties of create.Run                                                *)
(***************************************************************************)
\* the plaintext of the chunks of a file, in order
RECURSIVE ChunkData(_)
ChunkData(chunks) ==
    IF chunks = <<>> THEN <<>> ELSE Head(chunks).data \o ChunkData(Tail(chunks))

\* crypt.Encrypt has returned: Run opened the output file and ran the pipeline
PipelineRan == encRet # Pending

\* C1: when Run has returned, the producer goroutine is not blocked in a
\* pw.Write that nobody will ever read (it has finished, or it still can).
C1_ProducerNotLeftBlocked ==
    runPc = "returned" =>
        ~(prodPc \in {"write", "write_trailer"} /\ pipeBuf # <<>>)

\* C4 as stated: Run's result is Encrypt's error if non-nil, else Create's
\* error if non-nil, else success.
C4_ResultOrder ==
    (runPc = "returned" /\ PipelineRan) =>
        runResult = IF encRet # Nil THEN encRet
                    ELSE IF prodErr # Nil THEN prodErr
                    ELSE Nil

\* C4 amended: Run's result is Encrypt's error if non-nil, else Create's error
\* if non-nil, else the error of f.Stat() if it fails, else success.
C4_ResultOrderThenStat ==
    (runPc = "returned" /\ PipelineRan) =>
        IF encRet # Nil THEN runResult = encRet
        ELSE IF prodErr # Nil THEN runResult = prodErr
        ELSE runResult \in {StatFailed, Nil}

\* both stages failed and Run returned the consumer's error
C4_Witness ==
    /\ runPc = "returned" /\ PipelineRan
    /\ encRet # Nil /\ prodErr \notin {Nil, Pending}
    /\ runResult = encRet

\* C5: once archive.Create has returned, the pipe is closed with its result
\* (io.EOF for nil) and the reader has taken every byte written before; the
\* read that meets the close returns that result after all bytes; on io.EOF
\* a successful Encrypt has encrypted exactly the bytes written; a non-nil
\* Create error read by the consumer is in the error Run returns.
C5_ProducerResultDelivered ==
    /\ prodPc \in {"send", "done"} =>
          /\ pipeErr = IF prodErr = Nil THEN EOF ELSE prodErr
          /\ nRead = nWritten
    /\ rdErr # Nil =>
          /\ rdErr = IF prodErr = Nil THEN EOF ELSE prodErr
          /\ nRead = nWritten
    /\ (rdErr = EOF /\ encRet = Nil) =>
          ChunkData(outFile.chunks) = [i \in 1..nWritten |-> i]
    /\ (runPc = "returned" /\ rdErr \notin {Nil, EOF}) =>
          /\ runResult # Nil
          /\ \A i \in DOMAIN prodErr.chain : ErrorsIs(runResult, prodErr.chain[i])
          /\ SubSeq(runResult.text, Len(runResult.text) - Len(prodErr.text) + 1,
                    Len(runResult.text)) = prodErr.text

\* Create failed after bytes went through the pipe, and Run returned its error
C5_Witness ==
    /\ runPc = "returned"
    /\ prodErr \notin {Nil, Pending}
    /\ rdErr = prodErr
    /\ nWritten > 0
    /\ ErrorsIs(runResult, "lstat failed")

\* C6: once ctx is cancelled while Run is running, no further pipe write is
\* started and no further pipe read delivers bytes (both stages unwind at
\* their next blocking I/O point).
C6_CancelStopsPipeline ==
    [][(ctxCancelled /\ runPc # "returned") =>
          (nWritten' = nWritten /\ nRead' = nRead)]_vars

\* C7 as stated: after an error return of Run that follows the opening of the
\* output file, crypt.Decrypt fails on the file for every identity.
C7_ErrorLeavesNoEnvelope ==
    (runPc = "returned" /\ PipelineRan /\ runResult # Nil) =>
        \A k \in Keys : Decrypt(outFile, <<k>>).err # Nil

\* C7 amended: after Run returns the error of crypt.Encrypt or of
\* archive.Create, crypt.Decrypt fails on the file for every identity.
C7_PipelineErrorLeavesNoEnvelope ==
    (/\ runPc = "returned" /\ PipelineRan /\ runResult # Nil
     /\ \/ encRet # Nil /\ runResult = encRet
        \/ encRet = Nil /\ prodErr # Nil /\ runResult = prodErr) =>
        \A k \in Keys : Decrypt(outFile, <<k>>).err # Nil

\* Run failed after the header and at least one chunk reached the file, and
\* the identity of a recipient does not decrypt it
C7_Witness ==
    /\ runPc = "returned" /\ PipelineRan /\ runResult = encRet /\ encRet # Nil
    /\ outFile.hdr = "complete"
    /\ Len(outFile.chunks) >= 1
    /\ \E i \in DOMAIN recipients :
          /\ AgeDecryptHeader(outFile, <<recipients[i]>>) = Nil
          /\ Decrypt(outFile, <<recipients[i]>>).err # Nil

(***************************************************************************)
(* crypt.Encrypt followed by crypt.Decrypt, on inputs drawn from small     *)
(* sets.  ParseIdentities returns one identity.                            *)
(***************************************************************************)
Byte == {0, 1}

InitCrypt ==
    /\ crPc = "start"
    /\ plaintext \in SeqsUpTo(Byte, MaxPlain)
    /\ crRecipients \in SeqsUpTo(Keys, MaxRecipients)
    /\ identities \in [1..1 -> Keys]
    /\ envelope = NoFile
    /\ encErr = Pending
    /\ decrypted = <<>>
    /\ decErr = Pending

\* must.NoError(Encrypt(&encrypted, bytes.NewReader(plaintext), recipients))
CrEncrypt ==
    /\ crPc = "start"
    /\ LET r == Encrypt(plaintext, crRecipients)
       IN  /\ envelope' = r.file
           /\ encErr' = r.err
           /\ crPc' = IF r.err = Nil THEN "encrypted" ELSE "done"
    /\ UNCHANGED <<plaintext, crRecipients, identities, decrypted, decErr>>
    /\ UNCHANGED <<pipeVars, extractVars, rtVars, restVars>>

\* err := Decrypt(&decrypted, &encrypted, identities)
CrDecrypt ==
    /\ crPc = "encrypted"
    /\ LET d == Decrypt(envelope, identities)
       IN  /\ decrypted' = d.out
           /\ decErr' = d.err
    /\ crPc' = "done"
    /\ UNCHANGED <<plaintext, crRecipients, identities, envelope, encErr>>
    /\ UNCHANGED <<pipeVars, extractVars, rtVars, restVars>>

CryptInit == PipeIdle /\ InitCrypt /\ ExtractIdle /\ RtIdle /\ RestIdle

CryptNext ==
    \/ CrEncrypt
    \/ CrDecrypt

CryptSpec == CryptInit /\ [][CryptNext]_vars

\* the identity is the private key of one of the recipients
IdentityMatches ==
    \E i \in DOMAIN identities : \E j \in DOMAIN crRecipients :
        identities[i] = crRecipients[j]

\* C9: after Encrypt for a non-empty recipient sequence, Decrypt with the
\* identity of any one of the recipients succeeds and yields the plaintext.
C9_AnyRecipientDecrypts ==
    (crPc = "done" /\ crRecipients # <<>> /\ IdentityMatches) =>
        /\ encErr = Nil
        /\ decErr = Nil
        /\ decrypted = plaintext

\* an RSA identity that is the second of two recipients (the first an
\* Ed25519 key) has decrypted a plaintext of more than one chunk
C9_Witness ==
    /\ crPc = "done" /\ decErr = Nil
    /\ Len(crRecipients) = 2
    /\ crRecipients[1] # identities[1] /\ crRecipients[2] = identities[1]
    /\ KeyType(identities[1]) = "ssh-rsa" /\ KeyType(crRecipients[1]) = "ssh-ed25519"
    /\ Len(plaintext) > ChunkSize
    /\ decrypted = plaintext

\* C10: Decrypt of an envelope for two recipients with an identity that
\* matches neither fails with an error that errors.Is recognises as ErrDecrypt.
C10_WrongKeyIsErrDecrypt ==
    (crPc = "done" /\ Len(crRecipients) = 2 /\ encErr = Nil /\ ~IdentityMatches) =>
        /\ decErr # Nil
        /\ ErrorsIs(decErr, ErrDecrypt)

(***************************************************************************)
(* Paths: a path is the sequence of its characters.                        *)
(***************************************************************************)
Sep == "/"
Dot == <<".">>
DotDot == <<".", ".">>

\* strings.HasPrefix(s, prefix)
HasPrefix(s, prefix) ==
    Len(prefix) <= Len(s) /\ SubSeq(s, 1, Len(prefix)) = prefix

\* the elements of a path between its separators
RECURSIVE SplitFrom(_, _, _)
SplitFrom(p, i, cur) ==
    IF i > Len(p) THEN <<cur>>
    ELSE IF p[i] = Sep THEN <<cur>> \o SplitFrom(p, i + 1, <<>>)
    ELSE SplitFrom(p, i + 1, Append(cur, p[i]))

Elements(p) == SplitFrom(p, 1, <<>>)

\* filepath.Clean, element by element: empty and "." elements go, ".." takes
\* the element before it away, at the root it goes, elsewhere it stays
RECURSIVE CleanElements(_, _, _, _)
CleanElements(els, i, rooted, acc) ==
    IF i > Len(els) THEN acc
    ELSE LET e == els[i]
         IN  IF e = <<>> \/ e = Dot
               THEN CleanElements(els, i + 1, rooted, acc)
             ELSE IF e = DotDot
               THEN IF acc # <<>> /\ acc[Len(acc)] # DotDot
                      THEN CleanElements(els, i + 1, rooted, SubSeq(acc, 1, Len(acc) - 1))
                    ELSE IF rooted
                      THEN CleanElements(els, i + 1, rooted, acc)
                    ELSE CleanElements(els, i + 1, rooted, Append(acc, e))
             ELSE CleanElements(els, i + 1, rooted, Append(acc, e))

RECURSIVE JoinElements(_)
JoinElements(els) ==
    IF els = <<>> THEN <<>>
    ELSE IF Len(els) = 1 THEN els[1]
    ELSE els[1] \o <<Sep>> \o JoinElements(Tail(els))

\* filepath.Clean(path)
Clean(p) ==
    LET rooted == p # <<>> /\ p[1] = Sep
        els == CleanElements(Elements(p), 1, rooted, <<>>)
    IN  IF rooted THEN <<Sep>> \o JoinElements(els)
        ELSE IF els = <<>> THEN Dot
        ELSE JoinElements(els)

\* filepath.Join(a, b): empty elements before the first non-empty one are
\* ignored, the rest is joined with the separator and cleaned
Join(a, b) ==
    IF a # <<>> THEN Clean(a \o <<Sep>> \o b)
    ELSE IF b # <<>> THEN Clean(b)
    ELSE <<>>

\* the index of the last separator of a path (0: none)
RECURSIVE LastSep(_, _)
LastSep(p, i) == IF i = 0 THEN 0 ELSE IF p[i] = Sep THEN i ELSE LastSep(p, i - 1)

\* filepath.Dir(path)
Dir(p) == Clean(SubSeq(p, 1, LastSep(p, Len(p))))

(***************************************************************************)
(* archive.Extract(r, destDir) over a file system of directories and       *)
(* regular files.                                                          *)
(***************************************************************************)
\* a variant of the guard that tests the joined path without normalizing it
PathTraversal_Unclean(name, dest) ==
    /\ ~HasPrefix(dest \o <<Sep>> \o name, Clean(dest) \o <<Sep>>)
    /\ Join(dest, name) # Clean(dest)

\* a variant of the guard that forgets the separator after destDir
PathTraversal_NoSep(name, dest) ==
    /\ ~HasPrefix(Clean(Join(dest, name)), Clean(dest))
    /\ Clean(Join(dest, name)) # Clean(dest)

\* the guard: target := filepath.Join(destDir, header.Name);
\* !strings.HasPrefix(Clean(target), Clean(destDir)+"/") && Clean(target) != Clean(destDir)
PathTraversal(name, dest) ==
    /\ ~HasPrefix(Clean(Join(dest, name)), Clean(dest) \o <<Sep>>)
    /\ Clean(Join(dest, name)) # Clean(dest)

\* os.MkdirAll(path, perm) for a clean absolute path: a directory is fine, a
\* regular file is ENOTDIR, else the parent is made first, then the path
RECURSIVE MkdirAll(_, _, _)
MkdirAll(dirs, files, p) ==
    IF p \in dirs THEN [dirs |-> dirs, err |-> Nil]
    ELSE IF p \in DOMAIN files THEN [dirs |-> dirs, err |-> Cause("not a directory")]
    ELSE IF p = Dir(p) THEN [dirs |-> dirs \cup {p}, err |-> Nil]
    ELSE LET r == MkdirAll(dirs, files, Dir(p))
         IN  IF r.err # Nil THEN r
             ELSE [dirs |-> r.dirs \cup {p}, err |-> Nil]

\* a variant that opens without O_TRUNC and leaves an existing file as it is
WriteFile_KeepsOld(dirs, files, p, data) ==
    IF p \in dirs THEN [files |-> files, err |-> Cause("is a directory")]
    ELSE IF p \in DOMAIN files THEN [files |-> files, err |-> Nil]
    ELSE [files |-> (p :> data) @@ files, err |-> Nil]

\* os.OpenFile(target, O_CREATE|O_WRONLY|O_TRUNC, mode); io.Copy(f, tr); f.Close()
WriteFile(dirs, files, p, data) ==
    IF p \in dirs THEN [files |-> files, err |-> Cause("is a directory")]
    ELSE [files |-> (p :> data) @@ files, err |-> Nil]

\* a path and the directories above it
RECURSIVE SelfAndAncestors(_)
SelfAndAncestors(p) ==
    IF p = Dir(p) THEN {p} ELSE {p} \cup SelfAndAncestors(Dir(p))

\* the names a crafted archive may carry:
\* a, a/b, ., /a, .., ../dx, a/../../e
EntryNames == { <<"a">>, <<"a", "/", "b">>, <<".">>, <<"/", "a">>, <<".", ".">>,
                <<".", ".", "/", "d", "x">>,
                <<"a", "/", ".", ".", "/", ".", ".", "/", "e">> }
EntryTypes == {"dir", "reg", "symlink"}

\* the directories Extract is run in (os.Getwd: absolute and clean): /d, /d/e, /
DestDirs == { <<"/", "d">>, <<"/", "d", "/", "e">>, <<"/">> }

\* the decompressed tar stream: its entries, the content of entry i being i
Streams == {st \in SeqsUpTo([name : EntryNames, type : EntryTypes, data : 1..MaxEntries],
                            MaxEntries) :
              \A i \in DOMAIN st : st[i].data = i}

\* the bytes given to Extract: a well-formed tar.gz, one cut off after its last
\* whole entry, or bytes that are no gzip stream at all
StreamKinds == {"ok", "truncated", "notgzip"}

InitExtract ==
    /\ exPc = "open"
    /\ destDir \in DestDirs
    /\ stream \in Streams
    /\ streamKind \in IF stream = <<>> THEN StreamKinds ELSE StreamKinds \ {"notgzip"}
    /\ exIdx = 1
    /\ fsDirs = SelfAndAncestors(destDir)
    /\ fsFiles = <<>>
    /\ extracted = <<>>
    /\ exErr = Pending

\* gr, err := gzip.NewReader(r); tr := tar.NewReader(gr)
ExOpen ==
    /\ exPc = "open"
    /\ IF streamKind = "notgzip"
         THEN /\ exErr' = Wrap(ErrExtract, Cause("gzip: invalid header"), <<>>)
              /\ exPc' = "done"
         ELSE exPc' = "next" /\ UNCHANGED exErr
    /\ UNCHANGED <<destDir, stream, streamKind, exIdx, fsDirs, fsFiles, extracted>>
    /\ UNCHANGED <<pipeVars, cryptVars, rtVars, restVars>>

\* one turn of the loop for an entry: the guard, then the entry by type
ExEntry ==
    /\ exPc = "next"
    /\ exIdx <= Len(stream)
    /\ LET h == stream[exIdx]
           target == Join(destDir, h.name)
       IN  IF PathTraversal(h.name, destDir)
             THEN /\ exErr' = Wrap(ErrExtract, Nil, <<"path traversal: ">> \o h.name)
                  /\ exPc' = "done"
                  /\ UNCHANGED <<exIdx, fsDirs, fsFiles, extracted>>
           ELSE IF h.type = "dir"
             THEN LET m == MkdirAll(fsDirs, fsFiles, target)
                  IN  /\ fsDirs' = m.dirs
                      /\ UNCHANGED fsFiles
                      /\ IF m.err # Nil
                           THEN /\ exErr' = Wrap(ErrExtract, m.err, <<>>)
                                /\ exPc' = "done"
                                /\ UNCHANGED <<exIdx, extracted>>
                           ELSE /\ extracted' = Append(extracted, h.name)
                                /\ exIdx' = exIdx + 1
                                /\ UNCHANGED <<exErr, exPc>>
           ELSE IF h.type = "reg"
             THEN LET m == MkdirAll(fsDirs, fsFiles, Dir(target))
                      w == WriteFile(m.dirs, fsFiles, target, h.data)
                  IN  /\ fsDirs' = m.dirs
                      /\ IF m.err # Nil
                           THEN /\ exErr' = Wrap(ErrExtract, m.err, <<>>)
                                /\ exPc' = "done"
                                /\ UNCHANGED <<exIdx, extracted, fsFiles>>
                         ELSE IF w.err # Nil
                           THEN /\ exErr' = Wrap(ErrExtract, w.err, <<>>)
                                /\ exPc' = "done"
                                /\ UNCHANGED <<exIdx, extracted, fsFiles>>
                         ELSE /\ fsFiles' = w.files
                              /\ extracted' = Append(extracted, h.name)
                              /\ exIdx' = exIdx + 1
                              /\ UNCHANGED <<exErr, exPc>>
           ELSE /\ extracted' = Append(extracted, h.name)
                /\ exIdx' = exIdx + 1
                /\ UNCHANGED <<exErr, exPc, fsDirs, fsFiles>>
    /\ UNCHANGED <<destDir, stream, streamKind>>
    /\ UNCHANGED <<pipeVars, cryptVars, rtVars, restVars>>

\* header, err := tr.Next() after the last entry: io.EOF ends the loop and
\* Extract returns extracted, nil; any other error is returned wrapped
ExEnd ==
    /\ exPc = "next"
    /\ exIdx > Len(stream)
    /\ exErr' = IF streamKind = "ok" THEN Nil
                ELSE Wrap(ErrExtract, Cause("unexpected EOF"), <<>>)
    /\ exPc' = "done"
    /\ UNCHANGED <<destDir, stream, streamKind, exIdx, fsDirs, fsFiles, extracted>>
    /\ UNCHANGED <<pipeVars, cryptVars, rtVars, restVars>>

ExtractInit == PipeIdle /\ CryptIdle /\ InitExtract /\ RtIdle /\ RestIdle

ExtractNext ==
    \/ ExOpen
    \/ ExEntry
    \/ ExEnd

ExtractSpec == ExtractInit /\ [][ExtractNext]_vars

\* a variant that lists only the names that were put on disk
ExtractReturn_MaterializedOnly ==
    LET OnDisk(n) == Join(destDir, n) \in fsDirs \cup DOMAIN fsFiles
    IN  IF exErr = Nil THEN SelectSeq(extracted, OnDisk) ELSE <<>>

\* what Extract returns as its list: extracted, or nil with an error
ExtractReturn == IF exErr = Nil THEN extracted ELSE <<>>

(***************************************************************************)
(* Properties of archive.Extract                                           *)
(***************************************************************************)
\* the directories Extract created and the files it wrote
Materialized == (fsDirs \ SelfAndAncestors(destDir)) \cup DOMAIN fsFiles

\* C2: every directory created and every file written has a normalized path
\* that is the normalized destDir or has the normalized destDir followed by
\* the separator as a prefix.
C2_WritesStayInDest ==
    \A p \in Materialized :
        \/ Clean(p) = Clean(destDir)
        \/ HasPrefix(Clean(p), Clean(destDir) \o <<Sep>>)

\* Extract made a directory and wrote a file, then met a name that escapes
C2_Witness ==
    /\ exPc = "done"
    /\ exIdx <= Len(stream) /\ PathTraversal(stream[exIdx].name, destDir)
    /\ fsDirs # SelfAndAncestors(destDir)
    /\ DOMAIN fsFiles # {}

\* the elements of a normalized absolute path
PathElements(p) == CleanElements(Elements(p), 1, TRUE, <<>>)

\* the entry's name, joined to destDir and normalized, is not destDir and
\* not below it
Outside(name) ==
    LET d == PathElements(destDir)
        t == PathElements(Join(destDir, name))
    IN  ~(Len(d) <= Len(t) /\ SubSeq(t, 1, Len(d)) = d)

\* the index of the first entry whose name escapes (none: past the end)
FirstOutside ==
    LET bad == {i \in DOMAIN stream : Outside(stream[i].name)}
    IN  IF bad = {} THEN Len(stream) + 1
        ELSE CHOOSE i \in bad : \A j \in bad : i <= j

\* C3: Extract never goes past an entry whose name escapes destDir; it ends
\* there with the ErrExtract error "path traversal: <name>", and no file and
\* no directory comes from that entry or a later one.
C3_FailClosed ==
    /\ \A i \in 1..(exIdx - 1) : ~Outside(stream[i].name)
    /\ (exPc = "done" /\ exIdx <= Len(stream) /\ Outside(stream[exIdx].name)) =>
          /\ ErrorsIs(exErr, ErrExtract)
          /\ exErr.text = <<ErrExtract, "path traversal: ">> \o stream[exIdx].name
                            \o <<ErrExtract>>
          /\ ExtractReturn = <<>>
    /\ \A p \in DOMAIN fsFiles : fsFiles[p] < FirstOutside
    /\ \A p \in fsDirs \ SelfAndAncestors(destDir) :
          \E i \in 1..(FirstOutside - 1) :
              p \in SelfAndAncestors(Join(destDir, stream[i].name))

\* the first entry escapes and is followed by a file entry that does not:
\* Extract has ended and nothing was written
C3_Witness ==
    /\ exPc = "done"
    /\ Len(stream) = 2 /\ exIdx = 1
    /\ Outside(stream[1].name) /\ ~Outside(stream[2].name)
    /\ stream[2].type = "reg"
    /\ ErrorsIs(exErr, ErrExtract)
    /\ Materialized = {}

(***************************************************************************)
(* The round trip: archive.Create over a source tree, crypt.Encrypt,       *)
(* crypt.Decrypt with the identity of a recipient, archive.Extract.        *)
(***************************************************************************)
\* the paths given to Create: the file a, the directory s that holds the file
\* s/f, the file ../x beside the working directory, the file /r/g
RootPaths == { <<"a">>, <<"s">>, <<".", ".", "/", "x">>, <<"/", "r", "/", "g">> }

\* filepath.Walk(root, fn) in addPath: one entry per object, the directory
\* before what it holds, header.Name = path as walked, then the file's bytes
Walk(root) ==
    IF root = <<"s">>
      THEN << [name |-> root, type |-> "dir", data |-> 0],
              [name |-> Join(root, <<"f">>), type |-> "reg", data |-> 8] >>
    ELSE IF root = <<"l">>
      THEN << [name |-> root, type |-> "symlink", data |-> 0] >>
      ELSE << [name |-> root, type |-> "reg", data |-> 7] >>

\* archive.Create(w, paths): the entries of every path, in order
RECURSIVE CreateEntries(_)
CreateEntries(ps) ==
    IF ps = <<>> THEN <<>> ELSE Walk(Head(ps)) \o CreateEntries(Tail(ps))

InitRoundTrip ==
    /\ rtPc = "start"
    /\ rtPaths \in SeqsUpTo(RootPaths, MaxPaths) \ {<<>>}
    /\ crPc = "idle"
    /\ plaintext = <<>>
    /\ crRecipients \in SeqsUpTo(Keys, MaxRecipients) \ {<<>>}
    /\ identities \in {<<crRecipients[i]>> : i \in DOMAIN crRecipients}
    /\ envelope = NoFile /\ encErr = Pending /\ decrypted = <<>> /\ decErr = Pending
    /\ exPc = "idle"
    /\ destDir \in DestDirs
    /\ stream = <<>> /\ streamKind = "ok"
    /\ exIdx = 1
    /\ fsDirs = SelfAndAncestors(destDir)
    /\ fsFiles = <<>>
    /\ extracted = <<>>
    /\ exErr = Pending

\* must.NoError(Create(&buf, paths))
RtCreate ==
    /\ rtPc = "start"
    /\ plaintext' = CreateEntries(rtPaths)
    /\ crPc' = "start"
    /\ rtPc' = "created"
    /\ UNCHANGED <<rtPaths, crRecipients, identities, envelope, encErr, decrypted,
                   decErr>>
    /\ UNCHANGED <<pipeVars, extractVars, restVars>>

\* extracted, err := Extract(&decrypted, destDir) on what Decrypt produced
RtExtract ==
    /\ rtPc = "created"
    /\ crPc = "done" /\ decErr = Nil
    /\ stream' = decrypted
    /\ exPc' = "open"
    /\ rtPc' = "extracting"
    /\ UNCHANGED <<rtPaths, destDir, streamKind, exIdx, fsDirs, fsFiles, extracted,
                   exErr>>
    /\ UNCHANGED <<pipeVars, cryptVars, restVars>>

RoundTripInit == PipeIdle /\ InitRoundTrip /\ RestIdle

RoundTripNext ==
    \/ RtCreate
    \/ CrEncrypt
    \/ CrDecrypt
    \/ RtExtract
    \/ ExOpen
    \/ ExEntry
    \/ ExEnd

RoundTripSpec == RoundTripInit /\ [][RoundTripNext]_vars

\* C8: the round trip succeeds and leaves, for every archived regular file, a
\* file at join(dest, entry name) with the source's content, and every
\* archived directory below dest.
C8_RoundTrip ==
    (rtPc = "extracting" /\ exPc = "done") =>
        /\ exErr = Nil
        /\ \A i \in DOMAIN plaintext :
              LET e == plaintext[i]
                  t == Join(destDir, e.name)
              IN  /\ e.type = "reg" =>
                        (t \in DOMAIN fsFiles /\ fsFiles[t] = e.data)
                  /\ e.type = "dir" => t \in fsDirs

(***************************************************************************)
(* crypt.Decrypt of an envelope whose payload was damaged on the way from  *)
(* Encrypt's writer to Decrypt's reader.                                   *)
(***************************************************************************)
\* the ciphertext cut off before chunk i: chunk i and what follows are gone
Truncated(chunks, i) == SubSeq(chunks, 1, i - 1)

\* the ciphertext cut off inside chunk i
TruncatedInside(chunks, i) ==
    LET c == chunks[i]
        n == IF Len(c.data) > 0 THEN Len(c.data) - 1 ELSE 0
    IN  SubSeq(chunks, 1, i - 1) \o <<TornChunk(SubSeq(c.data, 1, n), c.last)>>

\* a bit of chunk i flipped: its Poly1305 tag no longer verifies
Tampered(chunks, i) == [chunks EXCEPT ![i].complete = FALSE]

\* the envelope Encrypt wrote for the plaintext and the recipients
Pristine == Encrypt(plaintext, crRecipients).file

\* the reader r handed to Decrypt yields a damaged payload
CrTamper ==
    /\ crPc = "encrypted"
    /\ envelope = Pristine
    /\ \E i \in DOMAIN envelope.chunks :
         \E cs \in {Truncated(envelope.chunks, i),
                    TruncatedInside(envelope.chunks, i),
                    Tampered(envelope.chunks, i)} :
            envelope' = [envelope EXCEPT !.chunks = cs]
    /\ UNCHANGED <<crPc, plaintext, crRecipients, identities, encErr, decrypted,
                   decErr>>
    /\ UNCHANGED <<pipeVars, extractVars, rtVars, restVars>>

TamperNext ==
    \/ CrEncrypt
    \/ CrTamper
    \/ CrDecrypt

TamperSpec == CryptInit /\ [][TamperNext]_vars

\* Decrypt ran with a matching identity on a damaged payload
DamagedDecrypted ==
    /\ crPc = "done" /\ encErr = Nil /\ IdentityMatches
    /\ envelope # Pristine

\* whatever the damage, Decrypt does not return nil
DamageNeverAccepted == DamagedDecrypted => decErr # Nil

\* C11: when a chunk of the payload fails authentication (tampered, or the
\* stream truncated before its final chunk), Decrypt returns an error of kind
\* ErrDecrypt and never nil with a prefix or an altered plaintext.
C11_DamageIsErrDecrypt ==
    DamagedDecrypted =>
        /\ decErr # Nil
        /\ ErrorsIs(decErr, ErrDecrypt)

(***************************************************************************)
(* ghkeys.FetchRecipients: GET https://github.com/<username>.keys and turn *)
(* every key line of the body into an age recipient.                       *)
(***************************************************************************)
MaxLines == 3
StatusOK == 200
Username == "testuser"

\* a line of the body: its key type field, the key its blob encodes (0: no
\* valid blob), whether white space surrounds it, and whether it is longer
\* than the scanner's buffer (bufio.MaxScanTokenSize)
Line(type, key, pad, long) == [type |-> type, key |-> key, pad |-> pad, long |-> long]

Lines ==
    {Line("", 0, FALSE, FALSE), Line("", 0, TRUE, FALSE),
     Line("garbage", 0, FALSE, FALSE), Line("garbage", 0, FALSE, TRUE),
     Line("ssh-rsa", 0, FALSE, FALSE),
     Line("ecdsa-sha2-nistp256", 0, FALSE, FALSE)}
    \cup {Line(KeyType(k), k, FALSE, FALSE) : k \in Keys}
    \cup {Line(KeyType(1), 1, TRUE, FALSE)}

\* strings.TrimSpace(line)
TrimSpace(line) == [line EXCEPT !.pad = FALSE]

\* a variant that takes every line with a key type field for a key
ParseRecipient_AnyType(line) ==
    IF line.type # ""
      THEN [rcpt |-> line.key, err |-> Nil]
      ELSE [rcpt |-> 0, err |-> Cause("malformed SSH recipient")]

\* agessh.ParseRecipient(line): an authorized_keys line of an Ed25519 or RSA key
ParseRecipient(line) ==
    IF line.key \in Keys /\ line.type = KeyType(line.key)
      THEN [rcpt |-> line.key, err |-> Nil]
    ELSE IF line.type \in {"ssh-ed25519", "ssh-rsa"} \/ line.type = "garbage"
      THEN [rcpt |-> 0, err |-> Cause("malformed SSH recipient")]
    ELSE [rcpt |-> 0, err |-> Cause("unknown SSH recipient type")]

\* a variant that reports an empty result as a failed fetch
NoRecipients_FetchKind(username) == Wrap(ErrFetchKeys, Nil, <<username>>)

\* constants.ErrNoValidKeys.Wrap(nil, username)
NoRecipients(username) == Wrap(ErrNoValidKeys, Nil, <<username>>)

InitFetch ==
    /\ fPc = "start"
    /\ fFail \in {"none", "newrequest", "do", "readall"}
    /\ fStatus \in {StatusOK, 404, 500}
    /\ fBody \in SeqsUpTo(Lines, MaxLines)
    /\ fIdx = 1
    /\ fRcpts = <<>>
    /\ fRet = <<>>
    /\ fErr = Pending

fetchOthers == <<pipeVars, cryptVars, extractVars, rtVars, createVars, readVars,
                 pureVars>>

FetchReturn(rs, err) ==
    /\ fPc' = "returned"
    /\ fRet' = rs
    /\ fErr' = err

\* http.NewRequestWithContext and client.Do
FetchDo ==
    /\ fPc = "start"
    /\ IF fFail = "newrequest"
         THEN FetchReturn(<<>>, Wrap(ErrFetchKeys, Cause("invalid URL"), <<>>))
       ELSE IF fFail = "do"
         THEN FetchReturn(<<>>, Wrap(ErrFetchKeys, Cause("connection refused"), <<>>))
       ELSE fPc' = "status" /\ UNCHANGED <<fRet, fErr>>
    /\ UNCHANGED <<fFail, fStatus, fBody, fIdx, fRcpts>>
    /\ UNCHANGED fetchOthers

\* if resp.StatusCode != http.StatusOK
FetchStatus ==
    /\ fPc = "status"
    /\ IF fStatus # StatusOK
         THEN FetchReturn(<<>>, Wrap(ErrFetchKeys, Nil, <<"HTTP", ToString(fStatus)>>))
         ELSE fPc' = "readall" /\ UNCHANGED <<fRet, fErr>>
    /\ UNCHANGED <<fFail, fStatus, fBody, fIdx, fRcpts>>
    /\ UNCHANGED fetchOthers

\* body, err := io.ReadAll(resp.Body)
FetchReadAll ==
    /\ fPc = "readall"
    /\ IF fFail = "readall"
         THEN FetchReturn(<<>>, Wrap(ErrFetchKeys, Cause("unexpected EOF"), <<>>))
         ELSE fPc' = "scan" /\ UNCHANGED <<fRet, fErr>>
    /\ UNCHANGED <<fFail, fStatus, fBody, fIdx, fRcpts>>
    /\ UNCHANGED fetchOthers

\* one turn of for scanner.Scan() { ... }: Scan returns false at the end of
\* the body and at a line that does not fit its buffer
FetchScan ==
    /\ fPc = "scan"
    /\ IF fIdx > Len(fBody) \/ fBody[fIdx].long
         THEN fPc' = "scanned" /\ UNCHANGED <<fIdx, fRcpts>>
         ELSE LET line == TrimSpace(fBody[fIdx])
                  r == ParseRecipient(line)
              IN  /\ fRcpts' = IF line.type = "" \/ r.err # Nil
                                 THEN fRcpts
                                 ELSE Append(fRcpts, r.rcpt)
                  /\ fIdx' = fIdx + 1
                  /\ fPc' = "scan"
    /\ UNCHANGED <<fFail, fStatus, fBody, fRet, fErr>>
    /\ UNCHANGED fetchOthers

\* if len(recipients) == 0 { return nil, ErrNoValidKeys } return recipients, nil
FetchEnd ==
    /\ fPc = "scanned"
    /\ IF Len(fRcpts) = 0
         THEN FetchReturn(<<>>, NoRecipients(Username))
         ELSE FetchReturn(fRcpts, Nil)
    /\ UNCHANGED <<fFail, fStatus, fBody, fIdx, fRcpts>>
    /\ UNCHANGED fetchOthers

FetchInit ==
    /\ PipeIdle /\ CryptIdle /\ ExtractIdle /\ RtIdle
    /\ InitFetch /\ CreateIdle /\ ReadIdle /\ PureIdle

FetchNext ==
    \/ FetchDo
    \/ FetchStatus
    \/ FetchReadAll
    \/ FetchScan
    \/ FetchEnd

FetchSpec == FetchInit /\ [][FetchNext]_vars

\* the fetch succeeded: a response with status 200 whose body was read
FetchOK == fFail = "none" /\ fStatus = StatusOK

\* the keys of the non-blank lines of the body that parse, in line order
RECURSIVE KeysOf(_, _)
KeysOf(body, i) ==
    IF i > Len(body) THEN <<>>
    ELSE LET line == TrimSpace(body[i])
         IN  IF line.type # "" /\ ParseRecipient(line).err = Nil
               THEN <<line.key>> \o KeysOf(body, i + 1)
               ELSE KeysOf(body, i + 1)

\* C12: on a successful fetch the result is one recipient per non-blank line
\* that parses as an RSA or Ed25519 key, in line order and with duplicates
\* kept; a malformed or unsupported line is skipped and does not change what
\* the other lines resolve to.
C12_OnePerKeyLine ==
    (fPc = "returned" /\ FetchOK /\ KeysOf(fBody, 1) # <<>>) =>
        /\ fErr = Nil
        /\ fRet = KeysOf(fBody, 1)

\* the same for bodies whose lines all fit the scanner's buffer
ShortLinesResolved ==
    (fPc = "returned" /\ FetchOK /\ KeysOf(fBody, 1) # <<>>
       /\ \A i \in DOMAIN fBody : ~fBody[i].long) =>
        /\ fErr = Nil
        /\ fRet = KeysOf(fBody, 1)

\* the line is blank or is not a line of an RSA or Ed25519 key
NoKeyLine(line) == line.type \notin {"ssh-ed25519", "ssh-rsa"} \/ line.key \notin Keys

\* C13: a 200 response whose body is empty, has only blank lines, or has only
\* malformed or unsupported-algorithm lines makes FetchRecipients fail with
\* ErrNoValidKeys and return no recipients.
C13_NoValidKeys ==
    (fPc = "returned" /\ FetchOK /\ \A i \in DOMAIN fBody : NoKeyLine(fBody[i])) =>
        /\ fRet = <<>>
        /\ fErr # Nil
        /\ ErrorsIs(fErr, ErrNoValidKeys)

\* a body of a blank line and an ECDSA line was answered with ErrNoValidKeys
C13_Witness ==
    /\ fPc = "returned" /\ FetchOK
    /\ Len(fBody) = 2
    /\ fBody[1].type = "" /\ fBody[2].type = "ecdsa-sha2-nistp256"
    /\ fRet = <<>>
    /\ ErrorsIs(fErr, ErrNoValidKeys)

\* C14: FetchRecipients fails with an error that errors.Is recognises as
\* ErrFetchKeys when the request errors (transport, body read) and when the
\* status is not 200, whatever the body; no recipients are returned.
C14_FetchFailedKind ==
    (fPc = "returned" /\ ~FetchOK) =>
        /\ fRet = <<>>
        /\ fErr # Nil
        /\ ErrorsIs(fErr, ErrFetchKeys)

\* the part of it that concerns the status
StatusIsErrFetchKeys ==
    (fPc = "returned" /\ fFail = "none" /\ fStatus # StatusOK) =>
        /\ fRet = <<>>
        /\ ErrorsIs(fErr, ErrFetchKeys)

\* a 200 response without any key line: every line is blank
NoKeyLines == \A i \in DOMAIN fBody : TrimSpace(fBody[i]).type = ""

\* C19 as stated: a 200 response without key lines fails with an error of a
\* kind NoKeysFound, a kind of its own next to NoValidKeys.
C19_NoKeysFoundKind ==
    (fPc = "returned" /\ FetchOK /\ NoKeyLines) =>
        /\ fErr # Nil
        /\ ErrorsIs(fErr, "no keys found")
        /\ ~ErrorsIs(fErr, ErrNoValidKeys)

\* C19 (amended): a 200 response without key lines fails with ErrNoValidKeys,
\* the kind that a body of unsupported lines only fails with as well, and it
\* is not reported as a failed fetch.
C19_NoKeyLinesIsNoValidKeys ==
    (fPc = "returned" /\ FetchOK /\ NoKeyLines) =>
        /\ fRet = <<>>
        /\ fErr # Nil
        /\ ErrorsIs(fErr, ErrNoValidKeys)
        /\ ~ErrorsIs(fErr, ErrFetchKeys)

\* the empty body was answered with ErrNoValidKeys
C19_Witness ==
    /\ fPc = "returned" /\ FetchOK
    /\ fBody = <<>>
    /\ fErr = Wrap(ErrNoValidKeys, Nil, <<Username>>)

(***************************************************************************)
(* crypt.Encrypt without recipients                                        *)
(***************************************************************************)
\* whatever Encrypt returns, what it wrote is never an envelope with a
\* complete header and no stanza
NoEnvelopeWithoutStanza ==
    crPc \in {"encrypted", "done"} =>
        (envelope.hdr = "complete" => Len(envelope.stanzas) > 0)

\* C17: Encrypt with an empty recipient sequence fails with an error that
\* errors.Is recognises as ErrEncrypt, and writes no envelope without stanzas.
C17_NoRecipientsIsErrEncrypt ==
    (crPc = "done" /\ crRecipients = <<>>) =>
        /\ encErr # Nil
        /\ ErrorsIs(encErr, ErrEncrypt)
        /\ envelope.hdr # "complete"

(***************************************************************************)
(* archive.Create over a file system whose operations can fail, and into a *)
(* writer that can fail: what is written, what is returned, and what is    *)
(* closed.                                                                 *)
(***************************************************************************)
\* the paths given to Create: those of the round trip and the symlink l
CreateRoots == RootPaths \cup { <<"l">> }

\* the operations of addPath that can fail on an object of a given type
FaultKinds(type) ==
    {"lstat", "write"}
    \cup (IF type = "dir" THEN {"readdir"} ELSE {})
    \cup (IF type = "symlink" THEN {"readlink"} ELSE {})
    \cup (IF type = "reg" THEN {"open", "read", "grow", "shrink"} ELSE {})

\* the size lstat reports for a regular file
FileSize == 2

\* the bytes the file holds when it is copied: it grew or shrank by one byte
\* since the walk stat-ed it, or it did not change
SizeAtCopy(kind) ==
    IF kind = "grow" THEN FileSize + 1
    ELSE IF kind = "shrink" THEN FileSize - 1
    ELSE FileSize

\* a variant of the tar writer that does not check the previous entry
MissedWriting_Unchecked(sizes) == FALSE

\* tar.Writer.Flush, called by WriteHeader and Close: the entry before must
\* have received every byte its header declares
MissedWriting(sizes) ==
    sizes # <<>> /\ sizes[Len(sizes)].written < sizes[Len(sizes)].declared

\* the failures of the file system (as opposed to those of the writer w)
ReadFaults == {"lstat", "readdir", "readlink", "open", "read"}

\* the faults that can hit Create(w, ps): none, one operation on one object,
\* or a failing tw.Close() or gw.Close()
Faults(ps) ==
    {NoFault, [path |-> 0, obj |-> 0, kind |-> "twclose"],
     [path |-> 0, obj |-> 0, kind |-> "gwclose"]}
    \cup UNION {UNION {{[path |-> i, obj |-> j, kind |-> k] :
                          k \in FaultKinds(Walk(ps[i])[j].type)} :
                       j \in DOMAIN Walk(ps[i])} :
                i \in DOMAIN ps}

InitCreate ==
    /\ cPc = "walk"
    /\ cPaths \in SeqsUpTo(CreateRoots, MaxPaths)
    /\ cFault \in Faults(cPaths)
    /\ cIdx = 1
    /\ cObj = 1
    /\ cOut = <<>>
    /\ cSizes = <<>>
    /\ twClosed = FALSE
    /\ gwClosed = FALSE
    /\ cHandles = {}
    /\ cErr = Pending

createOthers == <<pipeVars, cryptVars, extractVars, rtVars, fetchVars, readVars,
                  pureVars>>

\* the fault hits the object the walk is at
FaultHere(kinds) ==
    cFault.path = cIdx /\ cFault.obj = cObj /\ cFault.kind \in kinds

\* return constants.ErrCreateArchive.Wrap(err, p)
AddPathFailed(err) ==
    /\ cErr' = Wrap(ErrCreateArchive, err, cPaths[cIdx])
    /\ cPc' = "returned"

\* the walk goes on with the next object, or addPath returns nil and the loop
\* of Create goes on with the next path
Advance ==
    IF cObj < Len(Walk(cPaths[cIdx]))
      THEN cObj' = cObj + 1 /\ UNCHANGED cIdx
      ELSE cObj' = 1 /\ cIdx' = cIdx + 1

\* the walk function of addPath up to os.Open: the error filepath.Walk passes
\* in (lstat, ReadDir), os.Readlink, tar.FileInfoHeader, tw.WriteHeader, and
\* for a regular file os.Open
CrtVisit ==
    /\ cPc = "walk"
    /\ cIdx <= Len(cPaths)
    /\ LET o == Walk(cPaths[cIdx])[cObj]
           size == IF o.type = "reg" THEN FileSize ELSE 0
           hdr == [declared |-> size, written |-> 0]
       IN  IF FaultHere({"lstat", "readlink"})
             THEN /\ AddPathFailed(Cause(cFault.kind))
                  /\ UNCHANGED <<cIdx, cObj, cOut, cSizes, cHandles>>
           ELSE IF MissedWriting(cSizes)
             \* tw.WriteHeader: the entry before is short
             THEN /\ AddPathFailed(Cause("missed writing bytes"))
                  /\ UNCHANGED <<cIdx, cObj, cOut, cSizes, cHandles>>
           ELSE IF FaultHere({"write"})
             THEN /\ AddPathFailed(Cause("write failed"))
                  /\ UNCHANGED <<cIdx, cObj, cOut, cSizes, cHandles>>
           ELSE IF FaultHere({"readdir"})
             \* Walk calls the function for the directory, then again with
             \* the error of reading it
             THEN /\ cOut' = Append(cOut, o)
                  /\ cSizes' = Append(cSizes, hdr)
                  /\ AddPathFailed(Cause(cFault.kind))
                  /\ UNCHANGED <<cIdx, cObj, cHandles>>
           ELSE IF o.type # "reg"
             THEN /\ cOut' = Append(cOut, o)
                  /\ cSizes' = Append(cSizes, hdr)
                  /\ Advance
                  /\ UNCHANGED <<cPc, cErr, cHandles>>
           ELSE IF FaultHere({"open"})
             THEN /\ cOut' = Append(cOut, [o EXCEPT !.data = 0])
                  /\ cSizes' = Append(cSizes, hdr)
                  /\ AddPathFailed(Cause("open"))
                  /\ UNCHANGED <<cIdx, cObj, cHandles>>
           ELSE /\ cOut' = Append(cOut, [o EXCEPT !.data = 0])
                /\ cSizes' = Append(cSizes, hdr)
                /\ cHandles' = cHandles \cup {o.name}
                /\ cPc' = "copy"
                /\ UNCHANGED <<cIdx, cObj, cErr>>
    /\ UNCHANGED <<cPaths, cFault, twClosed, gwClosed>>
    /\ UNCHANGED createOthers

\* _, err = io.Copy(tw, f); return err with the deferred f.Close().  tw.Write
\* takes the bytes the header declares and answers more with ErrWriteTooLong;
\* fewer bytes end the copy without error
CrtCopy ==
    /\ cPc = "copy"
    /\ LET o == Walk(cPaths[cIdx])[cObj]
           n == SizeAtCopy(IF FaultHere({"grow", "shrink"}) THEN cFault.kind ELSE "none")
           last == Len(cSizes)
       IN  /\ cHandles' = cHandles \ {o.name}
           /\ IF FaultHere({"read"})
                THEN /\ AddPathFailed(Cause("read"))
                     /\ UNCHANGED <<cIdx, cObj, cOut, cSizes>>
              ELSE IF n > cSizes[last].declared
                THEN /\ cSizes' = [cSizes EXCEPT ![last].written = cSizes[last].declared]
                     /\ cOut' = [cOut EXCEPT ![Len(cOut)] = o]
                     /\ AddPathFailed(Cause("write too long"))
                     /\ UNCHANGED <<cIdx, cObj>>
                ELSE /\ cSizes' = [cSizes EXCEPT ![last].written = n]
                     /\ cOut' = [cOut EXCEPT ![Len(cOut)] = o]
                     /\ Advance
                     /\ cPc' = "walk"
                     /\ UNCHANGED cErr
    /\ UNCHANGED <<cPaths, cFault, twClosed, gwClosed>>
    /\ UNCHANGED createOthers

\* if err := tw.Close(); err != nil { return ErrCreateArchive.Wrap(err) }
\* tw.Close() flushes the last entry and writes the trailer into gw
CrtCloseTw ==
    /\ cPc = "walk"
    /\ cIdx > Len(cPaths)
    /\ twClosed' = TRUE
    /\ IF MissedWriting(cSizes)
         THEN /\ cErr' = Wrap(ErrCreateArchive, Cause("missed writing bytes"), <<>>)
              /\ cPc' = "returned"
       ELSE IF cFault.kind = "twclose"
         THEN /\ cErr' = Wrap(ErrCreateArchive, Cause("write failed"), <<>>)
              /\ cPc' = "returned"
         ELSE cPc' = "close_gw" /\ UNCHANGED cErr
    /\ UNCHANGED <<cPaths, cFault, cIdx, cObj, cOut, cSizes, gwClosed, cHandles>>
    /\ UNCHANGED createOthers

\* a variant that closes the gzip writer and returns while the tar writer is
\* still open
CrtCloseGw_First ==
    /\ cPc \in {"walk", "close_gw"}
    /\ cIdx > Len(cPaths)
    /\ gwClosed' = TRUE
    /\ cErr' = IF cFault.kind = "gwclose"
                 THEN Wrap(ErrCreateArchive, Cause("write failed"), <<>>)
                 ELSE Nil
    /\ cPc' = "returned"
    /\ UNCHANGED <<cPaths, cFault, cIdx, cObj, cOut, cSizes, twClosed, cHandles>>
    /\ UNCHANGED createOthers

\* if err := gw.Close(); err != nil { return ErrCreateArchive.Wrap(err) }
\* return nil
CrtCloseGw ==
    /\ cPc = "close_gw"
    /\ gwClosed' = TRUE
    /\ cErr' = IF cFault.kind = "gwclose"
                 THEN Wrap(ErrCreateArchive, Cause("write failed"), <<>>)
                 ELSE Nil
    /\ cPc' = "returned"
    /\ UNCHANGED <<cPaths, cFault, cIdx, cObj, cOut, cSizes, twClosed, cHandles>>
    /\ UNCHANGED createOthers

CreateInit ==
    /\ PipeIdle /\ CryptIdle /\ ExtractIdle /\ RtIdle
    /\ FetchIdle /\ InitCreate /\ ReadIdle /\ PureIdle

CreateNext ==
    \/ CrtVisit
    \/ CrtCopy
    \/ CrtCloseTw
    \/ CrtCloseGw

CreateSpec == CreateInit /\ [][CreateNext]_vars

\* Create returned after an operation of the file system failed
ReadFailed == cPc = "returned" /\ cFault.kind \in ReadFaults

\* the entries of the paths before path i
EntriesBefore(i) == CreateEntries(SubSeq(cPaths, 1, i - 1))

\* the error names the input path, and nothing of a later path was written
CreateStopsAtFault ==
    ReadFailed =>
        /\ cErr # Nil
        /\ cErr.text[1] = ErrCreateArchive
        /\ SubSeq(cErr.text, 2, 1 + Len(cPaths[cFault.path])) = cPaths[cFault.path]
        /\ cIdx = cFault.path
        /\ Len(cOut) <= Len(EntriesBefore(cFault.path + 1))

\* C16: when walking, stat-ing, opening or reading an object under one of the
\* paths fails, Create fails with an error that errors.Is recognises as
\* ErrCreateArchive and that carries the input path, and no later path is
\* processed.
C16_ReadFailureIsErrCreateArchive ==
    ReadFailed =>
        /\ cErr # Nil
        /\ ErrorsIs(cErr, ErrCreateArchive)
        /\ SubSeq(cErr.text, 2, 1 + Len(cPaths[cFault.path])) = cPaths[cFault.path]
        /\ cIdx = cFault.path

\* C18: when Create has returned, with or without error, its tar writer and
\* its gzip writer are closed and addPath holds no source file open.
C18_AllClosedOnReturn ==
    cPc = "returned" =>
        /\ twClosed
        /\ gwClosed
        /\ cHandles = {}

\* the part of it that concerns the source files
SourceFilesClosed == cPc = "returned" => cHandles = {}

(***************************************************************************)
(* extract.Run and list.Run: ParseIdentities, os.Open, crypt.Decrypt into  *)
(* a buffer, then archive.Extract into the working directory or            *)
(* archive.List.                                                           *)
(***************************************************************************)
\* the tar streams of the archives on disk: no entry, the file a, the file a
\* and the file ../dx
ReadStreams ==
    { <<>>,
      << [name |-> <<"a">>, type |-> "reg", data |-> 1] >>,
      << [name |-> <<"a">>, type |-> "reg", data |-> 1],
         [name |-> <<".", ".", "/", "d", "x">>, type |-> "reg", data |-> 2] >> }

\* a variant that leaves out what is not a regular file
List_FilesOnly(st, kind) ==
    LET IsReg(e) == e.type = "reg"
        regs == SelectSeq(st, IsReg)
    IN  [names |-> [i \in DOMAIN regs |-> regs[i].name],
         err |-> IF kind = "ok" THEN Nil ELSE Cause("unexpected EOF")]

\* archive.List(r): the names of the entries, or the error of gzip or tar
List(st, kind) ==
    IF kind = "notgzip"
      THEN [names |-> <<>>, err |-> Wrap(ErrExtract, Cause("gzip: invalid header"), <<>>)]
    ELSE IF kind = "truncated"
      THEN [names |-> <<>>, err |-> Wrap(ErrExtract, Cause("unexpected EOF"), <<>>)]
    ELSE [names |-> [i \in DOMAIN st |-> st[i].name], err |-> Nil]

\* crypt.ParseIdentities(path)
ParseIdentities(file) ==
    IF file = "missing"
      THEN Wrap(ErrOpenFile, Cause("no such file"), <<"identityFile">>)
    ELSE IF file = "malformed"
      THEN Wrap(ErrParseIdentity, Cause("malformed SSH identity"), <<>>)
    ELSE Nil

InitRead ==
    /\ rdCmd \in {"extract", "list"}
    /\ rdNargs \in 0..3
    /\ rdPc = "start"
    /\ rdIdentity \in {"ok", "missing", "malformed"}
    /\ rdArchive \in {"exists", "missing"}
    /\ rdOpen = FALSE
    /\ rdCalls = <<>>
    /\ rdNames = <<>>
    /\ rdResult = Pending
    \* the archive file: an envelope of a tar stream for some recipients, whole
    \* or cut off before its last chunk
    /\ crPc = "idle"
    /\ plaintext \in ReadStreams
    /\ crRecipients \in {<<1>>, <<1, 2>>}
    /\ identities \in [1..1 -> Keys]
    /\ envelope \in {Encrypt(plaintext, crRecipients).file,
                     [Encrypt(plaintext, crRecipients).file EXCEPT
                        !.chunks = Truncated(@, Len(@))]}
    /\ encErr = Nil
    /\ decrypted = <<>>
    /\ decErr = Pending
    \* the working directory
    /\ exPc = "idle"
    /\ destDir \in DestDirs
    /\ stream = <<>>
    /\ streamKind \in IF plaintext = <<>> THEN StreamKinds ELSE StreamKinds \ {"notgzip"}
    /\ exIdx = 1
    /\ fsDirs = SelfAndAncestors(destDir)
    /\ fsFiles = <<>>
    /\ extracted = <<>>
    /\ exErr = Pending

readOthers == <<pipeVars, rtVars, fetchVars, createVars, pureVars>>

\* a return of Run: the deferred f.Close() runs
RdReturn(names, err) ==
    /\ rdPc' = "returned"
    /\ rdNames' = names
    /\ rdResult' = err
    /\ rdOpen' = FALSE

\* a variant that asks for one argument only
RdCheckArgs_OneArg ==
    /\ rdPc = "start"
    /\ IF rdNargs < 1
         THEN RdReturn(<<>>, Wrap(ErrMissingArgument, Nil, <<"usage">>))
         ELSE rdPc' = "identities" /\ UNCHANGED <<rdNames, rdResult, rdOpen>>
    /\ UNCHANGED <<rdCmd, rdNargs, rdIdentity, rdArchive, rdCalls>>
    /\ UNCHANGED <<cryptVars, extractVars, readOthers>>

\* if len(args) < 2 { return Result{}, ErrMissingArgument.Wrap(nil, usage) }
RdCheckArgs ==
    /\ rdPc = "start"
    /\ IF rdNargs < 2
         THEN RdReturn(<<>>, Wrap(ErrMissingArgument, Nil, <<"usage">>))
         ELSE rdPc' = "identities" /\ UNCHANGED <<rdNames, rdResult, rdOpen>>
    /\ UNCHANGED <<rdCmd, rdNargs, rdIdentity, rdArchive, rdCalls>>
    /\ UNCHANGED <<cryptVars, extractVars, readOthers>>

\* identities, err := crypt.ParseIdentities(identityFile)
RdParseIdentities ==
    /\ rdPc = "identities"
    /\ rdCalls' = Append(rdCalls, "ParseIdentities")
    /\ LET err == ParseIdentities(rdIdentity)
       IN  IF err # Nil
             THEN RdReturn(<<>>, err)
             ELSE rdPc' = "open" /\ UNCHANGED <<rdNames, rdResult, rdOpen>>
    /\ UNCHANGED <<rdCmd, rdNargs, rdIdentity, rdArchive>>
    /\ UNCHANGED <<cryptVars, extractVars, readOthers>>

\* f, err := os.Open(archiveFile); defer f.Close()
RdOpenArchive ==
    /\ rdPc = "open"
    /\ rdCalls' = Append(rdCalls, "Open")
    /\ IF rdArchive = "missing"
         THEN RdReturn(<<>>, Wrap(ErrOpenFile, Cause("no such file"), <<"archiveFile">>))
         ELSE rdOpen' = TRUE /\ rdPc' = "decrypt" /\ UNCHANGED <<rdNames, rdResult>>
    /\ UNCHANGED <<rdCmd, rdNargs, rdIdentity, rdArchive>>
    /\ UNCHANGED <<cryptVars, extractVars, readOthers>>

\* a variant that goes on with whatever Decrypt left in the buffer
RdDecrypt_IgnoresErr ==
    /\ rdPc = "decrypt"
    /\ rdCalls' = Append(rdCalls, "Decrypt")
    /\ LET d == Decrypt(envelope, identities)
       IN  /\ decrypted' = d.out
           /\ decErr' = d.err
           /\ rdPc' = IF rdCmd = "extract" THEN "getwd" ELSE "list"
           /\ UNCHANGED <<rdNames, rdResult, rdOpen>>
    /\ UNCHANGED <<rdCmd, rdNargs, rdIdentity, rdArchive>>
    /\ UNCHANGED <<crPc, plaintext, crRecipients, identities, envelope, encErr>>
    /\ UNCHANGED <<extractVars, readOthers>>

\* var decrypted bytes.Buffer
\* if err := crypt.Decrypt(&decrypted, f, identities); err != nil { return err }
RdDecrypt ==
    /\ rdPc = "decrypt"
    /\ rdCalls' = Append(rdCalls, "Decrypt")
    /\ LET d == Decrypt(envelope, identities)
       IN  /\ decrypted' = d.out
           /\ decErr' = d.err
           /\ IF d.err # Nil
                THEN RdReturn(<<>>, d.err)
                ELSE /\ rdPc' = IF rdCmd = "extract" THEN "getwd" ELSE "list"
                     /\ UNCHANGED <<rdNames, rdResult, rdOpen>>
    /\ UNCHANGED <<rdCmd, rdNargs, rdIdentity, rdArchive>>
    /\ UNCHANGED <<crPc, plaintext, crRecipients, identities, envelope, encErr>>
    /\ UNCHANGED <<extractVars, readOthers>>

\* cwd, err := os.Getwd(), then the call of archive.Extract(&decrypted, cwd)
RdGetwd ==
    /\ rdPc = "getwd"
    /\ \/ /\ rdCalls' = Append(rdCalls, "Getwd")
          /\ RdReturn(<<>>, Cause("getwd"))
          /\ UNCHANGED <<stream, exPc>>
       \/ /\ rdCalls' = rdCalls \o <<"Getwd", "Extract">>
          /\ stream' = decrypted
          /\ exPc' = "open"
          /\ rdPc' = "extract"
          /\ UNCHANGED <<rdNames, rdResult, rdOpen>>
    /\ UNCHANGED <<rdCmd, rdNargs, rdIdentity, rdArchive>>
    /\ UNCHANGED <<destDir, streamKind, exIdx, fsDirs, fsFiles, extracted, exErr>>
    /\ UNCHANGED <<cryptVars, readOthers>>

\* files, err := archive.Extract(...) has returned
RdAfterExtract ==
    /\ rdPc = "extract"
    /\ exPc = "done"
    /\ RdReturn(ExtractReturn, exErr)
    /\ UNCHANGED <<rdCmd, rdNargs, rdIdentity, rdArchive, rdCalls>>
    /\ UNCHANGED <<cryptVars, extractVars, readOthers>>

\* entries, err := archive.List(&decrypted)
RdList ==
    /\ rdPc = "list"
    /\ rdCalls' = Append(rdCalls, "List")
    /\ LET l == List(decrypted, streamKind)
       IN  RdReturn(l.names, l.err)
    /\ UNCHANGED <<rdCmd, rdNargs, rdIdentity, rdArchive>>
    /\ UNCHANGED <<cryptVars, extractVars, readOthers>>

ReadNext ==
    \/ RdCheckArgs
    \/ RdParseIdentities
    \/ RdOpenArchive
    \/ RdDecrypt
    \/ RdGetwd
    \/ ExOpen
    \/ ExEntry
    \/ ExEnd
    \/ RdAfterExtract
    \/ RdList

\* the three commands: create's Run, or extract's or list's Run
CommandInit ==
    \/ Init
    \/ PipeIdle /\ RtIdle /\ FetchIdle /\ CreateIdle /\ InitRead /\ PureIdle

CommandNext ==
    \/ Next
    \/ ReadNext

CommandSpec == CommandInit /\ [][CommandNext]_vars

\* C15: create's Run with fewer than 3 arguments, and extract's and list's Run
\* with fewer than 2, return an error that is ErrMissingArgument and have done
\* nothing else: no key fetch, no file opened, created or written.
C15_MissingArgument ==
    /\ (runPc = "returned" /\ nargs < 3) =>
          /\ ErrorsIs(runResult, ErrMissingArgument)
          /\ recipients = <<>> /\ outFile \in {NoFile, OldFile} /\ ~fOpen
          /\ prodPc = "notstarted" /\ encRet = Pending /\ nWritten = 0
    /\ (rdPc = "returned" /\ rdNargs < 2) =>
          /\ ErrorsIs(rdResult, ErrMissingArgument)
          /\ rdCalls = <<>> /\ ~rdOpen /\ rdNames = <<>>
          /\ decErr = Pending /\ exPc = "idle"
          /\ fsFiles = <<>> /\ fsDirs = SelfAndAncestors(destDir)

\* extract's Run was called with the archive file only and returned
\* ErrMissingArgument
C15_Witness ==
    /\ rdCmd = "extract" /\ rdNargs = 1 /\ rdPc = "returned"
    /\ rdResult = Wrap(ErrMissingArgument, Nil, <<"usage">>)

\* Extract or List was invoked
Invoked(f) == \E i \in DOMAIN rdCalls : rdCalls[i] = f

\* C20: Extract / List is invoked only after Decrypt has read the whole
\* payload and returned nil; when ParseIdentities, os.Open or Decrypt fails
\* neither is invoked and nothing is written under the working directory.
C20_DecryptBeforeExtract ==
    /\ (Invoked("Extract") \/ Invoked("List") \/ exPc # "idle") =>
          /\ Invoked("Decrypt")
          /\ decErr = Nil
          /\ decrypted = ChunkData(envelope.chunks)
    /\ (rdPc = "returned"
          /\ (rdIdentity # "ok" \/ rdArchive # "exists" \/ decErr \notin {Nil, Pending})) =>
          /\ rdResult # Nil
          /\ ~Invoked("Extract") /\ ~Invoked("List") /\ exPc = "idle"
          /\ fsFiles = <<>> /\ fsDirs = SelfAndAncestors(destDir)

\* extract's Run, given the identity of a recipient and an archive cut off
\* before its last chunk, returned Decrypt's error without calling Extract
C20_Witness ==
    /\ rdPc = "returned" /\ rdCmd = "extract" /\ rdNargs >= 2
    /\ rdCalls = <<"ParseIdentities", "Open", "Decrypt">>
    /\ IdentityMatches
    /\ envelope.hdr = "complete" /\ envelope.chunks = <<>>
    /\ decErr \notin {Nil, Pending} /\ rdResult = decErr
    /\ exPc = "idle"

(***************************************************************************)
(* archive.Create: entry sizes and the order of the two Close calls        *)
(***************************************************************************)
\* the regular-file entries whose content io.Copy has finished copying
Copied ==
    {i \in DOMAIN cSizes :
        cOut[i].type = "reg" /\ (i < Len(cSizes) \/ cPc \in {"walk", "close_gw"}
                                  \/ (cPc = "returned" /\ cFault.kind \in {"grow", "shrink"}))}

\* C21 as stated: every regular-file entry Create has emitted carries as many
\* content bytes as its header declares, also when the file grew or shrank
\* between lstat and the copy.
C21_WrittenEqualsDeclared ==
    \A i \in Copied : cSizes[i].written = cSizes[i].declared

\* C21 (amended): Create never returns success with an entry whose content
\* length differs from its declared size; no entry ever carries more bytes
\* than declared; a file that grew or shrank makes Create fail.
C21_SuccessMeansExactSizes ==
    /\ \A i \in DOMAIN cSizes : cSizes[i].written <= cSizes[i].declared
    /\ (cPc = "returned" /\ cErr = Nil) =>
          \A i \in DOMAIN cSizes : cSizes[i].written = cSizes[i].declared
    /\ (cPc = "returned" /\ cFault.kind \in {"grow", "shrink"}) => cErr # Nil

\* the first of two paths shrank: its entry is short, and Create failed at
\* the header of the second path
C21_Witness ==
    /\ cPc = "returned" /\ cFault.kind = "shrink" /\ cFault.path = 1
    /\ Len(cPaths) = 2 /\ cIdx = 2
    /\ cSizes[1].written < cSizes[1].declared
    /\ cErr # Nil /\ cErr # Pending

\* C22: the gzip writer is closed only after the tar writer, and Create
\* returns nil only after both were closed, in that order.
C22_TarClosedBeforeGzip ==
    /\ gwClosed => twClosed
    /\ (cPc = "returned" /\ cErr = Nil) => (twClosed /\ gwClosed)
    /\ cPc = "close_gw" => (twClosed /\ ~gwClosed)

\* Create returned nil for a directory and its file after both Close calls
C22_Witness ==
    /\ cPc = "returned" /\ cErr = Nil
    /\ twClosed /\ gwClosed
    /\ Len(cOut) = 2

(***************************************************************************)
(* archive.List on two independent copies of a stream                      *)
(***************************************************************************)
InitList ==
    /\ lPc = "start"
    /\ lNames = <<>>
    /\ lNames2 = <<>>
    /\ lErr = Pending
    /\ exPc = "idle"
    /\ destDir = <<>>
    /\ stream \in Streams
    /\ streamKind \in IF stream = <<>> THEN StreamKinds ELSE StreamKinds \ {"notgzip"}
    /\ exIdx = 1
    /\ fsDirs = {} /\ fsFiles = <<>> /\ extracted = <<>> /\ exErr = Pending

listOthers == <<pipeVars, cryptVars, extractVars, rtVars, fetchVars, createVars,
                readVars, wrapVars>>

\* entries, err := List(&buf) on the first copy
ListFirst ==
    /\ lPc = "start"
    /\ LET l == List(stream, streamKind)
       IN  lNames' = l.names /\ lErr' = l.err
    /\ lPc' = "first"
    /\ UNCHANGED lNames2
    /\ UNCHANGED listOthers

\* the same on the second copy
ListSecond ==
    /\ lPc = "first"
    /\ lNames2' = List(stream, streamKind).names
    /\ lPc' = "second"
    /\ UNCHANGED <<lNames, lErr>>
    /\ UNCHANGED listOthers

ListInit ==
    /\ PipeIdle /\ CryptIdle /\ RtIdle /\ FetchIdle /\ CreateIdle /\ ReadIdle
    /\ WrapIdle /\ InitList

ListNext ==
    \/ ListFirst
    \/ ListSecond

ListSpec == ListInit /\ [][ListNext]_vars

MadeBy(i) == SelfAndAncestors(Join(destDir, stream[i].name))

\* C24: on success Extract returns the names of all entries in stream order,
\* symlink entries included; a symlink entry is listed and nothing is put on
\* disk for it, in every archive.
C24_SymlinksListedNotCreated ==
    /\ (exPc = "done" /\ exErr = Nil) =>
          /\ Len(ExtractReturn) = Len(stream)
          /\ \A i \in DOMAIN stream : ExtractReturn[i] = stream[i].name
    /\ \A p \in Materialized :
          \E i \in DOMAIN stream :
              /\ i <= exIdx
              /\ stream[i].type # "symlink"
              /\ p \in MadeBy(i)

\* Extract succeeded on a symlink entry followed by a file entry: both names
\* are returned and only the file is on disk
C24_Witness ==
    /\ exPc = "done" /\ exErr = Nil
    /\ Len(stream) = 2
    /\ stream[1].type = "symlink" /\ stream[2].type = "reg"
    /\ stream[1].name # stream[2].name
    /\ ExtractReturn = <<stream[1].name, stream[2].name>>
    /\ Join(destDir, stream[1].name) \notin fsDirs \cup DOMAIN fsFiles
    /\ Join(destDir, stream[2].name) \in DOMAIN fsFiles

\* the guard turned entry exIdx away
Rejected ==
    /\ exPc = "done" /\ exIdx <= Len(stream)
    /\ exErr = Wrap(ErrExtract, Nil, <<"path traversal: ">> \o stream[exIdx].name)

\* C30: the guard rejects an entry only if its normalized target lies outside
\* destDir, for every destDir, the root included: an entry whose target is
\* destDir or inside it is accepted.
C30_RejectsOnlyOutside ==
    Rejected => Outside(stream[exIdx].name)

\* the same for every destDir but the root
RejectsOnlyOutsideBelowRoot ==
    (Rejected /\ destDir # <<Sep>>) => Outside(stream[exIdx].name)

(***************************************************************************)
(* archive.Extract into a directory that already holds a file or           *)
(* directories at the paths the archive names                              *)
(***************************************************************************)
\* streams of file and directory entries named a and a/b
OverStreams ==
    {st \in Streams :
        \A i \in DOMAIN st : /\ st[i].name \in { <<"a">>, <<"a", "/", "b">> }
                             /\ st[i].type \in {"reg", "dir"}}

\* destDir holds the file a (content 0), or the directories a and a/b
InitExtractOver ==
    /\ exPc = "open"
    /\ destDir \in DestDirs
    /\ stream \in OverStreams
    /\ streamKind \in IF stream = <<>> THEN StreamKinds ELSE StreamKinds \ {"notgzip"}
    /\ exIdx = 1
    /\ \/ /\ fsDirs = SelfAndAncestors(destDir)
          /\ fsFiles = (Join(destDir, <<"a">>) :> 0)
       \/ /\ fsDirs = SelfAndAncestors(Join(destDir, <<"a", "/", "b">>))
          /\ fsFiles = <<>>
    /\ extracted = <<>>
    /\ exErr = Pending

ExtractOverInit == PipeIdle /\ CryptIdle /\ InitExtractOver /\ RtIdle /\ RestIdle

ExtractOverSpec == ExtractOverInit /\ [][ExtractNext]_vars

\* the last file entry among the first n entries that has the target t
LastFor(t, n) ==
    LET is == {j \in 1..n : stream[j].type = "reg" /\ Join(destDir, stream[j].name) = t}
    IN  CHOOSE j \in is : \A k \in is : k <= j

\* C25: after a file entry is processed its target holds exactly the entry's
\* content, whatever file was there before (of two entries with one name the
\* later wins) and its parent directory exists; a directory entry for a
\* directory that exists succeeds.
C25_FileContentIsEntryContent ==
    /\ \A i \in 1..(exIdx - 1) :
          LET t == Join(destDir, stream[i].name)
          IN  /\ stream[i].type = "reg" =>
                    /\ t \in DOMAIN fsFiles
                    /\ fsFiles[t] = stream[LastFor(t, exIdx - 1)].data
                    /\ Dir(t) \in fsDirs
              /\ stream[i].type = "dir" => t \in fsDirs
    /\ (exPc = "done" /\ exErr # Nil /\ exIdx <= Len(stream) /\ ~Rejected
          /\ stream[exIdx].type = "dir") =>
          Join(destDir, stream[exIdx].name) \notin fsDirs

\* the file a that was there before holds the content of the second of two
\* file entries named a
C25_Witness ==
    /\ exPc = "done" /\ exErr = Nil
    /\ Len(stream) = 2
    /\ stream[1] = [name |-> <<"a">>, type |-> "reg", data |-> 1]
    /\ stream[2] = [name |-> <<"a">>, type |-> "reg", data |-> 2]
    /\ fsFiles[Join(destDir, <<"a">>)] = 2

\* a directory entry for the directory a/b that was there before succeeded
DirEntryForExistingDir ==
    /\ exPc = "done" /\ exErr = Nil
    /\ Len(stream) = 1 /\ stream[1].type = "dir" /\ stream[1].name = <<"a", "/", "b">>
    /\ fsFiles = <<>>

(***************************************************************************)
(* Constant.Wrap over every sentinel, a choice of causes and of args.      *)
(***************************************************************************)
Sentinels ==
    {ErrMissingArgument, ErrFetchKeys, ErrParseKey, ErrNoValidKeys, ErrCreateArchive,
     ErrEncrypt, ErrDecrypt, ErrExtract, ErrOpenFile, ErrParseIdentity}

\* err: nil, an error of the library, of the operating system, or one that
\* was itself made by Wrap (with and without a cause of its own)
WrapCauses ==
    {Nil, EOF, Cause("connection refused"),
     Wrap(ErrOpenFile, Cause("no such file"), <<"p">>),
     Wrap(ErrNoValidKeys, Nil, <<>>)}

\* args...: none, one, two
WrapArgs == {<<>>, <<"p">>, <<"status", "404">>}

InitWrap ==
    /\ wPc = "start"
    /\ wE \in Sentinels
    /\ wCause \in WrapCauses
    /\ wArgs \in WrapArgs
    /\ wRes = Pending

wrapOthers == <<pipeVars, cryptVars, extractVars, rtVars, fetchVars, createVars,
                readVars, listVars>>

\* res := e.Wrap(err, args...)
WrapCall ==
    /\ wPc = "start"
    /\ wRes' = Wrap(wE, wCause, wArgs)
    /\ wPc' = "done"
    /\ UNCHANGED <<wE, wCause, wArgs>>
    /\ UNCHANGED wrapOthers

WrapInit ==
    /\ PipeIdle /\ CryptIdle /\ ExtractIdle /\ RtIdle /\ FetchIdle /\ CreateIdle
    /\ ReadIdle /\ ListIdle /\ InitWrap

WrapNext == WrapCall

WrapSpec == WrapInit /\ [][WrapNext]_vars

\* C26: whatever the sentinel, the cause (nil or not) and the args, the
\* error that e.Wrap(err, args...) returns is identifiable as e by errors.Is.
C26_WrapIsIdentifiable == wPc = "done" => ErrorsIs(wRes, wE)

\* what Wrap gives: without a cause the result is identifiable as e; with
\* one it is identifiable as exactly what the cause is identifiable as, and
\* e is in its message only.
WrapIdentifiesCauseOnly ==
    wPc = "done" =>
        /\ wRes # Nil
        /\ wRes.text[1] = wE
        /\ wCause = Nil => ErrorsIs(wRes, wE)
        /\ wCause # Nil =>
              \A s \in Sentinels : ErrorsIs(wRes, s) <=> ErrorsIs(wCause, s)

(***************************************************************************)
(* create.Run: what the producer's failure does to the consumer, that Run  *)
(* returns, and what a failed key fetch leaves behind.                     *)
(***************************************************************************)

\* archive.Create has returned an error
CreateFailed == prodErr \notin {Nil, Pending}

\* C27: whenever archive.Create returns a non-nil error, crypt.Encrypt
\* returns a non-nil error too and the age writer is not closed (the file
\* gets no last chunk); Run's result is then the consumer's error, and the
\* receive from errCh never yields an error.
C27_ProducerErrorFailsConsumer ==
    /\ (CreateFailed /\ encRet # Pending) =>
          /\ encRet # Nil
          /\ \A i \in DOMAIN outFile.chunks : ~outFile.chunks[i].last
    /\ (CreateFailed /\ runPc = "returned") => (encRet # Pending /\ runResult = encRet)
    /\ runPc = "recv" => (prodErr = Nil /\ (errCh # <<>> => Head(errCh) = Nil))

\* Create failed, the consumer met its error at the pipe and Run returned the
\* consumer's error while Create's own sits in errCh, never received
C27_Witness ==
    /\ runPc = "returned" /\ CreateFailed
    /\ encRet = Wrap(ErrEncrypt, prodErr, <<>>)
    /\ runResult = encRet
    /\ prodPc = "done" /\ errCh = <<prodErr>>

\* the errors the key fetcher returns
IsFetcherError(err) ==
    err \in FetchErrors \cup {Wrap(ErrFetchKeys, Cause("context canceled"), <<>>)}

\* C29: the step in which the key fetcher returns an error is Run's return
\* of that error; up to and including it the output file is neither
\* created, truncated nor written (a file that was there stays as it was),
\* no handle is open and the producer goroutine is not started.
C29_FetchErrorLeavesOutput ==
    [][(runPc = "fetch" /\ runPc' = "returned") =>
          /\ IsFetcherError(runResult')
          /\ outFile \in {NoFile, OldFile}
          /\ outFile' = outFile
          /\ ~fOpen'
          /\ prodPc' = "notstarted" /\ prodErr' = Pending /\ nWritten' = 0
          /\ pipeErr' = NotClosed /\ errCh' = <<>>
          /\ encRet' = Pending]_vars

\* the fetcher failed and the archive that was at the output path is intact
C29_Witness ==
    /\ runPc = "returned" /\ IsFetcherError(runResult)
    /\ outFile = OldFile
    /\ prodPc = "notstarted" /\ ~fOpen

(***************************************************************************)
(* create.Run under fair scheduling: the Go scheduler runs every goroutine *)
(* that can run, Run itself and the producer; nothing obliges anybody to   *)
(* cancel ctx.                                                             *)
(***************************************************************************)
RunStep ==
    \/ RunCheckArgs \/ RunFetch \/ RunCreateFile \/ RunSpawn
    \/ EncInit \/ CopyRead \/ CopyWrite \/ EwClose
    \/ RunAfterEncrypt \/ RunRecv \/ RunStat

ProdStep ==
    \/ ProdAddPath \/ ProdWriteDone \/ ProdCloseWriters \/ ProdClosePipe \/ ProdSend

LiveSpec == Init /\ [][Next]_vars /\ WF_vars(RunStep) /\ WF_vars(ProdStep)

\* C28: in every interleaving of the producer and the consumer, whichever of
\* them fails or succeeds, Run eventually returns.
C28_RunReturns == <>(runPc = "returned")

\* Run went through the pipe reads and the receive from errCh and returned
C28_Witness ==
    /\ runPc = "returned" /\ encRet = Nil
    /\ prodPc = "done" /\ errCh = <<>>
    /\ nRead = nWritten /\ nWritten > 1

\* the two places Run waits at: it is there only while the producer still
\* has a step to take
NeverStuck ==
    /\ (runPc = "copy_read" /\ pipeBuf = <<>> /\ pipeErr = NotClosed) =>
          prodPc \in {"walk", "write", "write_trailer", "close_pipe"}
    /\ (runPc = "recv" /\ errCh = <<>>) => prodPc = "send"

====
